---- MODULE Spec2Model ----
(***************************************************************************)
(* Schedula: the turn-based dialogue state machine (app/graph.py,          *)
(* app/workflow.py), the slot-extraction pipeline (app/nlu/extractor.py,   *)
(* app/nlu/validators.py, app/utils/datetime_parser.py) and the            *)
(* per-session receive loop (app/websocket.py).                            *)
(*                                                                         *)
(* Encodings.  A Python str is a tuple of one-character strings.  An       *)
(* Optional value is None (the empty tuple) or Some(v) (a one-element      *)
(* tuple).  An instant is an integer number of days; every instant of the  *)
(* session model is timezone-aware (parse_datetime stamps naive results).  *)
(* Texts composed by the response generator are opaque TLA+ strings.       *)
(***************************************************************************)
EXTENDS Integers, Sequences, FiniteSets, TLC

\* ------------------------------------------------------------------------
\* Bounds of the model
\* ------------------------------------------------------------------------
MaxClock == 1

\* ------------------------------------------------------------------------
\* Optional values and texts
\* ------------------------------------------------------------------------
None == << >>
Some(v) == << v >>
Val(o) == o[1]
Truthy(o) == o # None /\ Val(o) # << >>

UpperCase == <<"A", "B", "D", "E", "N", "O", "P", "S", "Y">>
LowerCase == <<"a", "b", "d", "e", "n", "o", "p", "s", "y">>
OtherLetters == {"c", "g", "h", "i", "k", "l", "m", "r", "t", "u", "v", "w"}
Whitespace == {" "}

Letters == {UpperCase[i] : i \in DOMAIN UpperCase} \cup {LowerCase[i] : i \in DOMAIN LowerCase} \cup OtherLetters

lower_char(c) ==
    IF \E i \in DOMAIN UpperCase : UpperCase[i] = c
    THEN LowerCase[CHOOSE i \in DOMAIN UpperCase : UpperCase[i] = c]
    ELSE c

lower(s) == [i \in DOMAIN s |-> lower_char(s[i])]

RECURSIVE lstrip(_)
lstrip(s) == IF s # << >> /\ Head(s) \in Whitespace THEN lstrip(Tail(s)) ELSE s

RECURSIVE rstrip(_)
rstrip(s) == IF s # << >> /\ s[Len(s)] \in Whitespace THEN rstrip(SubSeq(s, 1, Len(s) - 1)) ELSE s

strip(s) == rstrip(lstrip(s))

\* F applied to the value of v, which is computed once
Bind(v, F(_)) == CHOOSE r \in {F(x) : x \in {v}} : TRUE

\* Python's `phrase in text` on strings
Contains(phrase, text) ==
    \E i \in 1..(Len(text) - Len(phrase) + 1) : SubSeq(text, i, i + Len(phrase) - 1) = phrase

\* ------------------------------------------------------------------------
\* Text literals of the source
\* ------------------------------------------------------------------------
YES == <<"y", "e", "s">>
NO == <<"n", "o">>
UNCERTAIN == <<"u", "n", "c", "e", "r", "t", "a", "i", "n">>

blacklist ==
    { <<"y", "e", "s">>, <<"y", "e", "a", "h">>, <<"o", "k">>, <<"o", "k", "a", "y">>,
      <<"n", "o">>, <<"s", "u", "r", "e">> }

forbidden_phrases ==
    { <<"i", "g", "n", "o", "r", "e", " ", "p", "r", "e", "v", "i", "o", "u", "s">>,
      <<"s", "y", "s", "t", "e", "m", " ", "m", "e", "s", "s", "a", "g", "e">>,
      <<"a", "s", "s", "i", "s", "t", "a", "n", "t", ":">>,
      <<"u", "s", "e", "r", ":">> }

skip_words ==
    { <<"n", "o">>, <<"n", "o", "p", "e">>, <<"s", "k", "i", "p">>, <<"n", "o", "n", "e">>,
      <<"n", "o", "t", " ", "n", "e", "e", "d", "e", "d">> }

\* ------------------------------------------------------------------------
\* app/nlu/validators.py
\* ------------------------------------------------------------------------
\* name: Optional text -> Optional text
validate_name(name) ==
    IF ~Truthy(name) THEN None
    ELSE IF Len(Val(name)) > 2 \/ Len(Val(name)) > 50 THEN None
    ELSE IF \E i \in DOMAIN Val(name) : Val(name)[i] \notin Letters \cup Whitespace \cup {"-", "'"} THEN None
    ELSE IF lower(Val(name)) \in blacklist THEN None
    ELSE name

\* validate_meeting_datetime comparing with < where the code has <=
validate_meeting_datetime_accepts_now(meeting_datetime, now) ==
    IF meeting_datetime = None THEN None
    ELSE IF Val(meeting_datetime) < now THEN None
    ELSE IF Val(meeting_datetime) > now + 365 THEN None
    ELSE meeting_datetime

\* meeting_datetime: Optional instant; now: instant (both timezone-aware)
validate_meeting_datetime(meeting_datetime, now) ==
    IF meeting_datetime = None THEN None
    ELSE IF Val(meeting_datetime) <= now THEN None
    ELSE IF Val(meeting_datetime) > now + 365 THEN None
    ELSE meeting_datetime

\* validate_meeting_title looking for the marker phrases in the title as typed
validate_meeting_title_case_sensitive(title) ==
    IF ~Truthy(title) THEN None
    ELSE LET stripped == strip(Val(title)) IN
         IF Len(stripped) < 3 \/ Len(stripped) > 100 THEN None
         ELSE IF \E phrase \in forbidden_phrases : Contains(phrase, stripped) THEN None
         ELSE Some(stripped)

validate_meeting_title(title) ==
    IF ~Truthy(title) THEN None
    ELSE LET stripped == strip(Val(title)) IN
         IF Len(stripped) < 3 \/ Len(stripped) > 100 THEN None
         ELSE IF \E phrase \in forbidden_phrases : Contains(phrase, lower(stripped)) THEN None
         ELSE Some(stripped)

\* ------------------------------------------------------------------------
\* The understanding provider's response (app/nlu/extractor.py)
\* ------------------------------------------------------------------------
\* A JSON value held by one key of the provider's object: null, a string, or
\* a value of another type (a list), which Optional[str] rejects.
JNull == [t |-> "null", s |-> << >>]
JStr(s) == [t |-> "str", s |-> s]
JList == [t |-> "list", s |-> << >>]

\* The key/value pairs of one flat JSON object; an absent key reads as null.
NullBody == [name |-> JNull, meeting_datetime_text |-> JNull, meeting_title |-> JNull, confirmation_status |-> JNull]

\* The response text as a sequence of lexical pieces: an opening brace, a
\* closing brace, the pairs between them, prose without braces, a JSON list
\* such as [1], the JSON number 0.
Tok(k) == [k |-> k, body |-> NullBody]
LBrace == Tok("{")
RBrace == Tok("}")
Prose == Tok("prose")
ListTok == Tok("[1]")
ZeroTok == Tok("0")
Pairs(b) == [k |-> "pairs", body |-> b]

\* Python values json.loads can return here
PyDict(b) == [k |-> "dict", empty |-> FALSE, d |-> b]
EmptyDict == [k |-> "dict", empty |-> TRUE, d |-> NullBody]
PyList == [k |-> "list", empty |-> FALSE, d |-> NullBody]
PyZero == [k |-> "int", empty |-> TRUE, d |-> NullBody]
JSONDecodeError == [k |-> "JSONDecodeError", empty |-> TRUE, d |-> NullBody]

\* json.loads: the whole text must be exactly one JSON value
json_loads(text) ==
    IF text = <<LBrace, RBrace>> THEN EmptyDict
    ELSE IF Len(text) = 3 /\ text[1] = LBrace /\ text[2].k = "pairs" /\ text[3] = RBrace THEN PyDict(text[2].body)
    ELSE IF text = <<ListTok>> THEN PyList
    ELSE IF text = <<ZeroTok>> THEN PyZero
    ELSE JSONDecodeError

\* str.find / str.rfind of a brace: 0 stands for Python's -1
find(text, tok) == IF \E i \in DOMAIN text : text[i] = tok THEN CHOOSE i \in DOMAIN text : text[i] = tok /\ \A j \in 1..(i - 1) : text[j] # tok ELSE 0
rfind(text, tok) == IF \E i \in DOMAIN text : text[i] = tok THEN CHOOSE i \in DOMAIN text : text[i] = tok /\ \A j \in (i + 1)..Len(text) : text[j] # tok ELSE 0

\* text: Optional response text
_safe_json_parse(text) ==
    IF ~Truthy(text) THEN EmptyDict
    ELSE IF json_loads(Val(text)) # JSONDecodeError THEN json_loads(Val(text))
    ELSE LET start == find(Val(text), LBrace)
             end == rfind(Val(text), RBrace)
         IN IF start # 0 /\ end # 0 /\ start < end /\ json_loads(SubSeq(Val(text), start, end)) # JSONDecodeError
            THEN json_loads(SubSeq(Val(text), start, end))
            ELSE EmptyDict

\* One attempt of the provider: it times out, raises, or returns `content`.
Attempt(kind, content) == [kind |-> kind, content |-> content]

LLM_MAX_RETRIES == 2

\* _call_groq under asyncio.wait_for: the parsed content, or a failure
_call_groq(attempt) == _safe_json_parse(attempt.content)

\* attempts[i] is what the provider does if it is invoked an i-th time.
\* The result: what the loop returns and how many times it invoked the provider.
\* The retry loop over range(1, MAX_RETRIES + 2)
RECURSIVE retry_loop_one_more(_, _)
retry_loop_one_more(attempt, attempts) ==
    IF attempt > LLM_MAX_RETRIES + 1 THEN [raw_output |-> EmptyDict, calls |-> attempt - 1]
    ELSE IF attempts[attempt].kind = "ok" THEN [raw_output |-> _call_groq(attempts[attempt]), calls |-> attempt]
    ELSE retry_loop_one_more(attempt + 1, attempts)

RECURSIVE retry_loop(_, _)
retry_loop(attempt, attempts) ==
    IF attempt > LLM_MAX_RETRIES THEN [raw_output |-> EmptyDict, calls |-> attempt - 1]
    ELSE IF attempts[attempt].kind = "ok" THEN [raw_output |-> _call_groq(attempts[attempt]), calls |-> attempt]
    ELSE retry_loop(attempt + 1, attempts)

_run_with_retries(attempts) == retry_loop(1, attempts)

\* ------------------------------------------------------------------------
\* app/utils/datetime_parser.py
\* ------------------------------------------------------------------------
\* dateparser.parse with RELATIVE_BASE = now: the phrases of the model
dateparser_parse(text, now) ==
    IF text = <<"t", "o", "m", "o", "r", "r", "o", "w">> THEN Some(now + 1)
    ELSE IF text = <<"y", "e", "s", "t", "e", "r", "d", "a", "y">> THEN Some(now - 1)
    ELSE IF text = <<"n", "o", "w">> THEN Some(now)
    ELSE IF text = <<"i", "n", " ", "3", "6", "5", " ", "d", "a", "y", "s">> THEN Some(now + 365)
    ELSE IF text = <<"i", "n", " ", "3", "6", "6", " ", "d", "a", "y", "s">> THEN Some(now + 366)
    ELSE None

parse_datetime(text, now) ==
    IF ~Truthy(text) \/ strip(Val(text)) = << >> THEN None
    ELSE dateparser_parse(Val(text), now)

\* ------------------------------------------------------------------------
\* app/state.py
\* ------------------------------------------------------------------------
ConversationStateFields ==
    {"step", "timezone", "name", "meeting_datetime", "meeting_title", "last_user_message",
     "system_message", "is_confirmed", "confirmation_status"}

\* ConversationState()
NewConversationState ==
    [step |-> "START", timezone |-> "Asia/Kolkata", name |-> None, meeting_datetime |-> None,
     meeting_title |-> None, last_user_message |-> None, system_message |-> None,
     is_confirmed |-> FALSE, confirmation_status |-> None]

\* Reading an attribute the model class does not declare raises AttributeError;
\* assigning one raises ValueError.
HasField(field) == field \in ConversationStateFields

\* ------------------------------------------------------------------------
\* app/nlu/extractor.py: extract_fields
\* ------------------------------------------------------------------------
\* Optional[str] of the schema from a JSON value
FieldValue(j) == IF j.t = "str" THEN Some(j.s) ELSE None

\* ExtractionFields(**raw_output) raises ValidationError
SchemaViolation(body) ==
    \E key \in DOMAIN body : body[key].t \notin {"null", "str"}

\* The result of a function that may raise: the exception it raised ("none" when
\* it returned), the state it returns and the number of provider invocations.
Returned(st, calls) == [raised |-> "none", state |-> st, calls |-> calls]
Raised(exception, st, calls) == [raised |-> exception, state |-> st, calls |-> calls]

\* The confirmation update comparing the token as it came, without lower().strip()
merge_confirmation_verbatim(st, fields) ==
    IF Truthy(FieldValue(fields.confirmation_status))
       /\ Val(FieldValue(fields.confirmation_status)) \in {YES, NO, UNCERTAIN}
    THEN [st EXCEPT !.confirmation_status = FieldValue(fields.confirmation_status)]
    ELSE st

merge_confirmation(st, fields) ==
    IF Truthy(FieldValue(fields.confirmation_status))
       /\ strip(lower(Val(FieldValue(fields.confirmation_status)))) \in {YES, NO, UNCERTAIN}
    THEN [st EXCEPT !.confirmation_status = Some(strip(lower(Val(FieldValue(fields.confirmation_status)))))]
    ELSE st

\* resolve_datetime without validate_meeting_datetime
resolve_datetime_unvalidated(fields, now) ==
    IF Truthy(FieldValue(fields.meeting_datetime_text))
    THEN parse_datetime(FieldValue(fields.meeting_datetime_text), now)
    ELSE None

resolve_datetime(fields, now) ==
    IF Truthy(FieldValue(fields.meeting_datetime_text))
    THEN validate_meeting_datetime(parse_datetime(FieldValue(fields.meeting_datetime_text), now), now)
    ELSE None

\* merge_name without the `not state.name` guard
merge_name_overwrites(st, name) ==
    IF Truthy(name) THEN [st EXCEPT !.name = name] ELSE st

merge_name(st, name) ==
    IF Truthy(name) /\ ~Truthy(st.name) THEN [st EXCEPT !.name = name] ELSE st

merge_datetime(st, meeting_datetime) ==
    IF meeting_datetime # None /\ st.meeting_datetime = None
    THEN [st EXCEPT !.meeting_datetime = meeting_datetime] ELSE st

merge_title(st, title) ==
    IF Truthy(title) /\ ~Truthy(st.meeting_title) THEN [st EXCEPT !.meeting_title = title] ELSE st

\* state: ConversationState; attempts: the provider's behaviour this turn;
\* now: the wall clock read inside the extraction
\* extract_fields that merges the well-formed fields of a record failing the schema
extract_after_partial(state, run, now) ==
    IF run.raw_output.empty THEN Returned(state, run.calls)
    ELSE IF run.raw_output.k # "dict" THEN Raised("TypeError", state, run.calls)
    ELSE LET fields == run.raw_output.d
             name == validate_name(FieldValue(fields.name))
             title == validate_meeting_title(FieldValue(fields.meeting_title))
             st1 == merge_confirmation(state, fields)
             meeting_datetime == resolve_datetime(fields, now)
         IN  Returned(merge_title(merge_datetime(merge_name(st1, name), meeting_datetime), title), run.calls)

extract_after(state, run, now) ==
    IF run.raw_output.empty THEN Returned(state, run.calls)
    ELSE IF run.raw_output.k # "dict" THEN Raised("TypeError", state, run.calls)
    ELSE IF SchemaViolation(run.raw_output.d) THEN Returned(state, run.calls)
    ELSE LET fields == run.raw_output.d
             name == validate_name(FieldValue(fields.name))
             title == validate_meeting_title(FieldValue(fields.meeting_title))
             st1 == merge_confirmation(state, fields)
             meeting_datetime == resolve_datetime(fields, now)
         IN  Returned(merge_title(merge_datetime(merge_name(st1, name), meeting_datetime), title), run.calls)

extract_fields(state, attempts, now) ==
    Bind(_run_with_retries(attempts), LAMBDA run : extract_after(state, run, now))

\* ------------------------------------------------------------------------
\* app/nlu/generator.py and app/calendar/google_calendar.py
\* ------------------------------------------------------------------------
\* The inputs of one turn that the program does not control:
\*   attempts  what the understanding provider does on each invocation,
\*   calendar  what the Google Calendar API does if an insert reaches it.
Inputs(attempts, calendar) == [attempts |-> attempts, calendar |-> calendar]

\* generate_response never raises and returns a text: the one its provider
\* composes for `goal`, or its fixed fallback.  The text is opaque here and
\* stands for "what the generator says for this goal".
generate_response(goal, inp) == goal

\* GoogleAuth.__init__(self) declares no parameter; GoogleAuth(access_token=...)
\* raises TypeError when the name is not among them.
GoogleAuthInitParams == {}

\* _create_event_blocking: "created", "GoogleCalendarError" or "TypeError"
_create_event_blocking(api) ==
    IF "access_token" \notin GoogleAuthInitParams THEN "TypeError"
    ELSE IF api = "created" THEN "created"
    ELSE "GoogleCalendarError"

\* create_event(title, start_datetime, retries = 2): whether it raised
\* GoogleCalendarError, and how many inserts reached the Google API
\* attempts counts the calls of _create_event_blocking, error names the
\* exception that leaves create_event ("none" when the event record is returned)
\* A retry loop whose "except Exception" re-raises instead of logging
create_event_loop_propagates(attempt, api) ==
    IF attempt > 2
    THEN [raised |-> TRUE, api_calls |-> 0, attempts |-> attempt - 1, error |-> "GoogleCalendarError"]
    ELSE IF _create_event_blocking(api) = "TypeError"
    THEN [raised |-> TRUE, api_calls |-> 0, attempts |-> attempt, error |-> "TypeError"]
    ELSE [raised |-> _create_event_blocking(api) = "GoogleCalendarError", api_calls |-> 1,
          attempts |-> attempt,
          error |-> IF _create_event_blocking(api) = "GoogleCalendarError"
                    THEN "GoogleCalendarError" ELSE "none"]

RECURSIVE create_event_loop(_, _)
create_event_loop(attempt, api) ==
    IF attempt > 2
    THEN [raised |-> TRUE, api_calls |-> 0, attempts |-> attempt - 1, error |-> "GoogleCalendarError"]
    ELSE IF _create_event_blocking(api) = "TypeError" THEN create_event_loop(attempt + 1, api)
    ELSE [raised |-> _create_event_blocking(api) = "GoogleCalendarError", api_calls |-> 1,
          attempts |-> attempt,
          error |-> IF _create_event_blocking(api) = "GoogleCalendarError"
                    THEN "GoogleCalendarError" ELSE "none"]

create_event(title, start_datetime, api) ==
    IF ~Truthy(title)
    THEN [raised |-> TRUE, api_calls |-> 0, attempts |-> 0, error |-> "GoogleCalendarError"]
    ELSE IF start_datetime = None
    THEN [raised |-> TRUE, api_calls |-> 0, attempts |-> 0, error |-> "GoogleCalendarError"]
    ELSE create_event_loop(1, api)

\* ------------------------------------------------------------------------
\* app/tts/kokoro.py, app/stt/whisper.py: the speech collaborators
\* ------------------------------------------------------------------------
\* What one run of the speech engine does
EngineOutcomes == {"ok", "timeout", "TTSError", "Exception"}

\* The WAV bytes the engine produced in its n-th run, and their base64 text
wav_bytes(n) == <<"wav", n>>
b64encode(bytes) == <<"b64", bytes>>

\* A retry loop that catches everything but asyncio.TimeoutError
synthesize_loop_timeout_escapes(attempt, outcomes) ==
    IF attempt > 2 THEN [error |-> "TTSError", value |-> None, calls |-> attempt - 1]
    ELSE IF outcomes[attempt] = "ok"
    THEN [error |-> "none", value |-> Some(b64encode(wav_bytes(attempt))), calls |-> attempt]
    ELSE [error |-> IF outcomes[attempt] = "timeout" THEN "TimeoutError" ELSE "TTSError",
          value |-> None, calls |-> attempt]

\* KokoroTTSService.synthesize(text, retries = 2): the loop over the attempts
RECURSIVE synthesize_loop(_, _)
synthesize_loop(attempt, outcomes) ==
    IF attempt > 2 THEN [error |-> "TTSError", value |-> None, calls |-> attempt - 1]
    ELSE IF outcomes[attempt] = "ok"
    THEN [error |-> "none", value |-> Some(b64encode(wav_bytes(attempt))), calls |-> attempt]
    ELSE synthesize_loop(attempt + 1, outcomes)

synthesize(text, outcomes) ==
    IF ~Truthy(text) \/ strip(Val(text)) = << >>
    THEN [error |-> "none", value |-> Some(<< >>), calls |-> 0]
    ELSE synthesize_loop(1, outcomes)

\* What _sync_transcribe does with the audio: it returns the transcript or raises
TranscriptionOutcomes == {"text", "STTError", "RuntimeError"}

\* A transcribe whose except clause re-raises what it caught
transcribe_unwrapped(audio_bytes, outcome, transcript) ==
    IF audio_bytes = None \/ Val(audio_bytes) = << >>
    THEN [error |-> "STTError", value |-> None, calls |-> 0]
    ELSE IF outcome = "text" THEN [error |-> "none", value |-> Some(transcript), calls |-> 1]
    ELSE [error |-> outcome, value |-> None, calls |-> 1]

\* WhisperSTTService.transcribe(audio_bytes)
transcribe(audio_bytes, outcome, transcript) ==
    IF audio_bytes = None \/ Val(audio_bytes) = << >>
    THEN [error |-> "STTError", value |-> None, calls |-> 0]
    ELSE IF outcome = "text" THEN [error |-> "none", value |-> Some(transcript), calls |-> 1]
    ELSE [error |-> "STTError", value |-> None, calls |-> 1]

\* ------------------------------------------------------------------------
\* app/graph.py: the nodes
\* ------------------------------------------------------------------------
\* What a node did: the exception it raised ("none" when it returned), the state it returns, how often it
\* invoked the understanding provider, whether it invoked create_event and
\* how many inserts reached the calendar API, and the intent it acted on.
NodeResult(raised, st, llm_calls, create_event_calls, api_calls, intent) ==
    [raised |-> raised, state |-> st, llm_calls |-> llm_calls,
     create_event_calls |-> create_event_calls, api_calls |-> api_calls, intent |-> intent]

Say(st, message, step) == [st EXCEPT !.system_message = Some(message), !.step = step]

\* The goals of the three generated re-prompts
RetryNameGoal == "Politely explain you didn't catch the name and ask for it again."
RetryDatetimeGoal == "Politely explain the date was invalid or missing, and ask for the date and time again (e.g. tomorrow at 3pm)."
RetryTitleGoal == "Politely ask for the title again, or remind them they can say 'no' to skip."

\* start_node that asks for the name whether or not one is known
start_node_ignores_name(state, inp, now) ==
    NodeResult("none", Say(state, generate_response("Greet the user warmly and ask for their name to start scheduling.", inp), "ASK_NAME"), 0, 0, 0, None)

start_node(state, inp, now) ==
    IF Truthy(state.name)
    THEN NodeResult("none", Say(state, generate_response("Greet {state.name} warmly back. Mention you are ready to schedule on their calendar. Ask for the date and time.", inp), "ASK_DATETIME"), 0, 0, 0, None)
    ELSE NodeResult("none", Say(state, generate_response("Greet the user warmly and ask for their name to start scheduling.", inp), "ASK_NAME"), 0, 0, 0, None)

\* ask_name_node that advances whether or not a name resulted
ask_name_after_advances(state, ex, inp) ==
    IF ex.raised # "none" THEN NodeResult(ex.raised, state, ex.calls, 0, 0, None)
    ELSE NodeResult("none", Say(ex.state, generate_response("Acknowledge the user's name warmly and ask for the meeting date and time.", inp), "ASK_DATETIME"), ex.calls, 0, 0, None)

ask_name_after(state, ex, inp) ==
    IF ex.raised # "none" THEN NodeResult(ex.raised, state, ex.calls, 0, 0, None)
    ELSE IF Truthy(ex.state.name)
    THEN NodeResult("none", Say(ex.state, generate_response("Acknowledge the user's name warmly and ask for the meeting date and time.", inp), "ASK_DATETIME"), ex.calls, 0, 0, None)
    ELSE NodeResult("none", Say(ex.state, generate_response(RetryNameGoal, inp), "ASK_NAME"), ex.calls, 0, 0, None)

ask_name_node(state, inp, now) ==
    Bind(extract_fields(state, inp.attempts, now), LAMBDA ex : ask_name_after(state, ex, inp))

\* An ASK_DATETIME handler that advances without testing the slot
ask_datetime_after_advances(state, ex, inp) ==
    IF ex.raised # "none" THEN NodeResult(ex.raised, state, ex.calls, 0, 0, None)
    ELSE NodeResult("none", Say(ex.state, generate_response("Acknowledge the date/time and ask if they want to add a meeting title (or say no to skip).", inp), "ASK_TITLE"), ex.calls, 0, 0, None)

ask_datetime_after(state, ex, inp) ==
    IF ex.raised # "none" THEN NodeResult(ex.raised, state, ex.calls, 0, 0, None)
    ELSE IF ex.state.meeting_datetime # None
    THEN NodeResult("none", Say(ex.state, generate_response("Acknowledge the date/time and ask if they want to add a meeting title (or say no to skip).", inp), "ASK_TITLE"), ex.calls, 0, 0, None)
    ELSE NodeResult("none", Say(ex.state, generate_response(RetryDatetimeGoal, inp), "ASK_DATETIME"), ex.calls, 0, 0, None)

ask_datetime_node(state, inp, now) ==
    Bind(extract_fields(state, inp.attempts, now), LAMBDA ex : ask_datetime_after(state, ex, inp))

\* (state.last_user_message or "").lower().strip()
UtteranceKey(state) == IF Truthy(state.last_user_message) THEN strip(lower(Val(state.last_user_message))) ELSE << >>

ask_title_after(state, ex, inp) ==
    IF ex.raised # "none" THEN NodeResult(ex.raised, state, ex.calls, 0, 0, None)
    ELSE IF Truthy(ex.state.meeting_title) \/ UtteranceKey(ex.state) \in skip_words
    THEN NodeResult("none", [ex.state EXCEPT !.step = "CONFIRM_DETAILS"], ex.calls, 0, 0, None)
    ELSE NodeResult("none", Say(ex.state, generate_response(RetryTitleGoal, inp), "ASK_TITLE"), ex.calls, 0, 0, None)

ask_title_node(state, inp, now) ==
    Bind(extract_fields(state, inp.attempts, now), LAMBDA ex : ask_title_after(state, ex, inp))

\* confirm_details_node writing the legacy literal of ConversationStep
confirm_details_node_legacy(state, inp, now) ==
    NodeResult("none", Say(state, generate_response("Ask user to confirm these EXACT details: {title_str} on {date_str}. Ask 'Should I create it?'. Be precise.", inp), "ASK_ANOTHER"), 0, 0, 0, None)

confirm_details_node(state, inp, now) ==
    NodeResult("none", Say(state, generate_response("Ask user to confirm these EXACT details: {title_str} on {date_str}. Ask 'Should I create it?'. Be precise.", inp), "AWAIT_CONFIRMATION"), 0, 0, 0, None)

CalendarFailureText == "I encountered an issue connecting to the calendar. Please try again later."
CancelledText == "Okay, I've cancelled the request. Let me know if you need anything else."
NotSureText == "I'm not sure if you want to confirm. Please say yes to confirm or no to cancel."
LoopRetryText == "I didn't catch that. Do you want to schedule another event? Yes or No?"

\* The yes branch: the arguments of create_event are evaluated first, and
\* state.google_access_token is not an attribute of ConversationState.
confirm_yes(st, inp, calls) ==
    IF ~HasField("google_access_token") THEN NodeResult("AttributeError", st, calls, 0, 0, Some(YES))
    ELSE LET created == create_event(IF Truthy(st.meeting_title) THEN st.meeting_title ELSE Some(<<"M", "e", "e", "t", "i", "n", "g">>),
                                     st.meeting_datetime, inp.calendar)
         IN IF created.raised
            THEN NodeResult("none", [Say(st, CalendarFailureText, "END") EXCEPT !.is_confirmed = FALSE], calls, 1, created.api_calls, Some(YES))
            ELSE NodeResult("none", [Say(st, generate_response("Confirm the meeting was successfully created. Then ask if they would like to schedule ANOTHER event.", inp), "HANDLE_NEW_LOOP") EXCEPT !.is_confirmed = TRUE],
                            calls, 1, created.api_calls, Some(YES))

\* await_confirmation_node with `else` for every intent but yes: no intent cancels
await_confirmation_after_cancels(state, ex, inp) ==
    LET intent == ex.state.confirmation_status
    IN  IF ex.raised # "none" THEN NodeResult(ex.raised, state, ex.calls, 0, 0, None)
        ELSE IF intent = Some(YES) THEN confirm_yes(ex.state, inp, ex.calls)
        ELSE NodeResult("none", [Say(ex.state, CancelledText, "END") EXCEPT !.is_confirmed = FALSE], ex.calls, 0, 0, intent)

\* await_confirmation_node whose no branch never matches: a no is re-prompted
await_confirmation_after_no_stays(state, ex, inp) ==
    LET intent == ex.state.confirmation_status
    IN  IF ex.raised # "none" THEN NodeResult(ex.raised, state, ex.calls, 0, 0, None)
        ELSE IF intent = Some(YES) THEN confirm_yes(ex.state, inp, ex.calls)
        ELSE NodeResult("none", Say(ex.state, NotSureText, "AWAIT_CONFIRMATION"), ex.calls, 0, 0, intent)

\* await_confirmation_node that marks the booking confirmed on anything but a
\* no, before the answer is understood as a yes
await_confirmation_after_presumes(state, ex, inp) ==
    LET intent == ex.state.confirmation_status
    IN  IF ex.raised # "none" THEN NodeResult(ex.raised, state, ex.calls, 0, 0, None)
        ELSE IF intent = Some(YES) THEN confirm_yes(ex.state, inp, ex.calls)
        ELSE IF intent = Some(NO)
        THEN NodeResult("none", [Say(ex.state, CancelledText, "END") EXCEPT !.is_confirmed = FALSE], ex.calls, 0, 0, intent)
        ELSE NodeResult("none", [Say(ex.state, NotSureText, "AWAIT_CONFIRMATION") EXCEPT !.is_confirmed = TRUE], ex.calls, 0, 0, intent)

await_confirmation_after(state, ex, inp) ==
    LET intent == ex.state.confirmation_status
    IN  IF ex.raised # "none" THEN NodeResult(ex.raised, state, ex.calls, 0, 0, None)
        ELSE IF intent = Some(YES) THEN confirm_yes(ex.state, inp, ex.calls)
        ELSE IF intent = Some(NO)
        THEN NodeResult("none", [Say(ex.state, CancelledText, "END") EXCEPT !.is_confirmed = FALSE], ex.calls, 0, 0, intent)
        ELSE NodeResult("none", Say(ex.state, NotSureText, "AWAIT_CONFIRMATION"), ex.calls, 0, 0, intent)

await_confirmation_node(state, inp, now) ==
    Bind(extract_fields([state EXCEPT !.confirmation_status = None], inp.attempts, now),
         LAMBDA ex : await_confirmation_after(state, ex, inp))

\* handle_new_loop_node that marks the booking confirmed when the user declines another
handle_new_loop_after_confirms(state, ex, inp) ==
    LET intent == ex.state.confirmation_status
    IN  IF ex.raised # "none" THEN NodeResult(ex.raised, state, ex.calls, 0, 0, None)
        ELSE IF intent = Some(YES)
        THEN NodeResult("none",
                        Say([ex.state EXCEPT !.name = None, !.meeting_datetime = None, !.meeting_title = None,
                                             !.is_confirmed = FALSE, !.confirmation_status = None],
                            generate_response("Enthusiastically accept. Ask who the new meeting is with.", inp), "ASK_NAME"),
                        ex.calls, 0, 0, intent)
        ELSE IF intent = Some(NO)
        THEN NodeResult("none", [Say(ex.state, generate_response("Politely say goodbye and end the session.", inp), "END") EXCEPT !.is_confirmed = TRUE], ex.calls, 0, 0, intent)
        ELSE NodeResult("none", Say(ex.state, LoopRetryText, "HANDLE_NEW_LOOP"), ex.calls, 0, 0, intent)

\* handle_new_loop_node whose reset forgets meeting_title
handle_new_loop_after_partial(state, ex, inp) ==
    LET intent == ex.state.confirmation_status
    IN  IF ex.raised # "none" THEN NodeResult(ex.raised, state, ex.calls, 0, 0, None)
        ELSE IF intent = Some(YES)
        THEN NodeResult("none",
                        Say([ex.state EXCEPT !.name = None, !.meeting_datetime = None,
                                             !.is_confirmed = FALSE, !.confirmation_status = None],
                            generate_response("Enthusiastically accept. Ask who the new meeting is with.", inp), "ASK_NAME"),
                        ex.calls, 0, 0, intent)
        ELSE IF intent = Some(NO)
        THEN NodeResult("none", Say(ex.state, generate_response("Politely say goodbye and end the session.", inp), "END"), ex.calls, 0, 0, intent)
        ELSE NodeResult("none", Say(ex.state, LoopRetryText, "HANDLE_NEW_LOOP"), ex.calls, 0, 0, intent)

handle_new_loop_after(state, ex, inp) ==
    LET intent == ex.state.confirmation_status
    IN  IF ex.raised # "none" THEN NodeResult(ex.raised, state, ex.calls, 0, 0, None)
        ELSE IF intent = Some(YES)
        THEN NodeResult("none",
                        Say([ex.state EXCEPT !.name = None, !.meeting_datetime = None, !.meeting_title = None,
                                             !.is_confirmed = FALSE, !.confirmation_status = None],
                            generate_response("Enthusiastically accept. Ask who the new meeting is with.", inp), "ASK_NAME"),
                        ex.calls, 0, 0, intent)
        ELSE IF intent = Some(NO)
        THEN NodeResult("none", Say(ex.state, generate_response("Politely say goodbye and end the session.", inp), "END"), ex.calls, 0, 0, intent)
        ELSE NodeResult("none", Say(ex.state, LoopRetryText, "HANDLE_NEW_LOOP"), ex.calls, 0, 0, intent)

\* handle_new_loop_node without `state.confirmation_status = None`
handle_new_loop_node_keeps(state, inp, now) ==
    Bind(extract_fields(state, inp.attempts, now),
         LAMBDA ex : handle_new_loop_after(state, ex, inp))

handle_new_loop_node(state, inp, now) ==
    Bind(extract_fields([state EXCEPT !.confirmation_status = None], inp.attempts, now),
         LAMBDA ex : handle_new_loop_after(state, ex, inp))

\* ------------------------------------------------------------------------
\* app/workflow.py
\* ------------------------------------------------------------------------
GraphNodes == {"START", "ASK_NAME", "ASK_DATETIME", "ASK_TITLE", "CONFIRM_DETAILS", "AWAIT_CONFIRMATION", "HANDLE_NEW_LOOP"}

\* A fixed entry point: set_entry_point("START")
route_start_restarts(state) == "START"

route_start(state) ==
    IF state.step # "" /\ state.step \in {"ASK_NAME", "ASK_DATETIME", "ASK_TITLE", "CONFIRM_DETAILS", "AWAIT_CONFIRMATION", "HANDLE_NEW_LOOP"}
    THEN state.step
    ELSE "START"

next_step_router(state) == state.step

\* The node a name was registered for by build_graph
Node(node, state, inp, now) ==
    CASE node = "START" -> start_node(state, inp, now)
      [] node = "ASK_NAME" -> ask_name_node(state, inp, now)
      [] node = "ASK_DATETIME" -> ask_datetime_node(state, inp, now)
      [] node = "ASK_TITLE" -> ask_title_node(state, inp, now)
      [] node = "CONFIRM_DETAILS" -> confirm_details_node(state, inp, now)
      [] node = "AWAIT_CONFIRMATION" -> await_confirmation_node(state, inp, now)
      [] node = "HANDLE_NEW_LOOP" -> handle_new_loop_node(state, inp, now)

\* The edge leaving a node: the next node, or "__end__" (langgraph's END)
EdgeAfter(node, state) ==
    IF node = "ASK_TITLE"
    THEN (IF next_step_router(state) = "CONFIRM_DETAILS" THEN "CONFIRM_DETAILS" ELSE "__end__")
    ELSE "__end__"

recursion_limit == 3

\* A text payload that is not a JSON string: it is stored unvalidated in
\* last_user_message and fails the validation of ConversationState.
NonStrPayload == <<"non", "str">>
ValidState(state) == state.last_user_message # NonStrPayload

\* What one run of the graph did: the resulting state and, for the claims,
\* the nodes that ran in order, the exception that ended the run ("none" if none), the
\* provider and calendar invocations, and the intent acted on.
RunResult(st, fault, ran, llm_calls, create_event_calls, api_calls, intent) ==
    [state |-> st, fault |-> fault, ran |-> ran, llm_calls |-> llm_calls,
     create_event_calls |-> create_event_calls, api_calls |-> api_calls, intent |-> intent]

\* conversation_graph.ainvoke from `node` on; acc is the RunResult so far
RECURSIVE ainvoke(_, _, _, _)
ainvoke_after(node, acc, r, inp, now) ==
    LET acc1 == RunResult(r.state, r.raised, Append(acc.ran, node), acc.llm_calls + r.llm_calls,
                          acc.create_event_calls + r.create_event_calls, acc.api_calls + r.api_calls,
                          IF r.intent # None THEN r.intent ELSE acc.intent)
    IN  IF r.raised # "none" \/ EdgeAfter(node, r.state) = "__end__" THEN acc1
        ELSE ainvoke(EdgeAfter(node, r.state), acc1, inp, now)

ainvoke(node, acc, inp, now) ==
    IF Len(acc.ran) >= recursion_limit THEN [acc EXCEPT !.fault = "GraphRecursionError"]
    ELSE Bind(Node(node, acc.state, inp, now), LAMBDA r : ainvoke_after(node, acc, r, inp, now))

\* run_step: the graph's result, or on any exception the state it was given
run_step(state, inp, now) ==
    IF ~ValidState(state) THEN RunResult(state, "ValidationError", << >>, 0, 0, 0, None)
    ELSE Bind(ainvoke(route_start(state), RunResult(state, "none", << >>, 0, 0, 0, None), inp, now),
              LAMBDA result : IF result.fault # "none" THEN [result EXCEPT !.state = state] ELSE result)

\* ------------------------------------------------------------------------
\* What the environment can send: utterances, provider responses
\* ------------------------------------------------------------------------
Utterances == { <<"h", "e", "l", "l", "o">>, <<" ", "S", "k", "i", "p", " ">> }

Body(name, meeting_datetime_text, meeting_title, confirmation_status) ==
    [name |-> name, meeting_datetime_text |-> meeting_datetime_text,
     meeting_title |-> meeting_title, confirmation_status |-> confirmation_status]

Al == <<"A", "l">>
Bo == <<"B", "o">>
Tomorrow == <<"t", "o", "m", "o", "r", "r", "o", "w">>
In366Days == <<"i", "n", " ", "3", "6", "6", " ", "d", "a", "y", "s">>
Sync == <<"S", "y", "n", "c">>
Plan == <<" ", "P", "l", "a", "n", " ">>

YesBody == Body(JNull, JNull, JNull, JStr(YES))
FullBody == Body(JStr(Al), JStr(Tomorrow), JStr(Sync), JStr(YES))

\* The objects the provider answers with in the session model
Bodies ==
    { Body(JStr(Al), JNull, JNull, JNull), Body(JStr(Bo), JNull, JNull, JNull),
      Body(JNull, JStr(Tomorrow), JNull, JNull), Body(JNull, JStr(In366Days), JNull, JNull),
      Body(JNull, JNull, JStr(Sync), JNull), Body(JNull, JNull, JStr(Plan), JNull),
      YesBody, Body(JNull, JNull, JNull, JStr(NO)), Body(JNull, JNull, JNull, JStr(UNCERTAIN)),
      FullBody,
      Body(JList, JStr(Tomorrow), JStr(Sync), JStr(YES)) }

\* message.content of the provider's completion: None, or a text
Contents ==
    {Some(<<LBrace, Pairs(b), RBrace>>) : b \in Bodies}
    \cup { None, Some(<<Prose>>), Some(<<ListTok>>) }

\* What the provider returns when it answers only after a failed attempt
RetryContents == { Some(<<LBrace, Pairs(FullBody), RBrace>>) }

FailKinds == {"timeout", "error"}

\* The provider fails (as fails[i] says) on its first p - 1 invocations and
\* returns `content` from the p-th on.
AnswersAt(p, fails, content) ==
    [i \in 1..(LLM_MAX_RETRIES + 1) |-> IF i < p THEN Attempt(fails[i], None) ELSE Attempt("ok", content)]

ProviderBehaviours ==
    {AnswersAt(1, << >>, content) : content \in Contents}
    \cup UNION { {AnswersAt(p, [i \in 1..(p - 1) |-> kind], content) : kind \in FailKinds, content \in RetryContents}
                 : p \in 2..(LLM_MAX_RETRIES + 1) }

NoProvider == AnswersAt(1, << >>, None)

CalendarOutcomes == {"created", "HttpError", "GoogleAuthError"}

\* The nodes that call extract_fields
Extracts(node) == node \in {"ASK_NAME", "ASK_DATETIME", "ASK_TITLE", "AWAIT_CONFIRMATION", "HANDLE_NEW_LOOP"}

\* The inputs that can matter to a run entered at `node`
ProviderInputs(node) == IF Extracts(node) THEN ProviderBehaviours ELSE {NoProvider}
CalendarInputs(node) == IF node = "AWAIT_CONFIRMATION" THEN CalendarOutcomes ELSE {"created"}

\* ------------------------------------------------------------------------
\* app/websocket.py: one session
\* ------------------------------------------------------------------------
VARIABLES
    state,        \* websocket_endpoint's local `state`
    user_states,  \* the registry: session id -> ConversationState
    pc,           \* "new", "receiving" (awaiting receive_text), "closed" (handler returned), "crashed" (handler ended by an exception)
    clock,        \* the wall clock, in days
    turn,         \* what the last inbound message made run_step do
    outbox,       \* the last message sent to the client
    call          \* the handler-level model: the arguments drawn for one call

vars == <<state, user_states, pc, clock, turn, outbox, call>>

user_id == "ws1"

NoTurn == [kind |-> "none", ran |-> << >>, fault |-> "none", llm_calls |-> 0, provider |-> "unused",
           create_event_calls |-> 0, api_calls |-> 0, intent |-> None, calendar |-> "unused",
           raw_output |-> "unrecorded"]

\* The session model draws the arguments of each call in its actions
NoCall == [given |-> NewConversationState, inp |-> Inputs(NoProvider, "created")]

\* How the provider behaved over the invocations the retry loop can make
ProviderSummary(node, inp) ==
    IF ~Extracts(node) THEN "unused"
    ELSE IF \A i \in 1..LLM_MAX_RETRIES : inp.attempts[i].kind # "ok" THEN "failed"
    ELSE "answered"

\* calendar: what the calendar API would do, recorded for the runs that act on intent yes
TurnRecord(kind, st, inp, result) ==
    [kind |-> kind, ran |-> result.ran, fault |-> result.fault, llm_calls |-> result.llm_calls,
     provider |-> IF result.ran = << >> THEN "unused" ELSE ProviderSummary(route_start(st), inp),
     create_event_calls |-> result.create_event_calls, api_calls |-> result.api_calls,
     intent |-> result.intent,
     calendar |-> IF result.ran # << >> /\ result.ran[1] = "AWAIT_CONFIRMATION" /\ result.intent = Some(YES) THEN inp.calendar ELSE "unused",
     raw_output |-> "unrecorded"]

NoMessage == [type |-> "none", text |-> "", step |-> ""]
\* {"error": ...} and {"status": ...}: the texts are not modelled
ErrorMessage == [type |-> "error", text |-> "", step |-> ""]
StatusMessage == [type |-> "status", text |-> "", step |-> ""]

\* The reply of a turn: text and step (audio_b64 is the synthesized audio, or
\* None when synthesis raises TTSError; the reply is sent either way)
Reply(st) ==
    [type |-> "reply", text |-> IF st.system_message # None THEN Val(st.system_message) ELSE "", step |-> st.step]

Register(st) == [id \in DOMAIN user_states \cup {user_id} |-> IF id = user_id THEN st ELSE user_states[id]]
Unregister == [id \in DOMAIN user_states \ {user_id} |-> user_states[id]]

Init ==
    /\ state = NewConversationState
    /\ user_states = << >>
    /\ pc = "new"
    /\ clock = 0
    /\ turn = NoTurn
    /\ outbox = NoMessage
    /\ call = NoCall

\* The wall clock advances
Tick ==
    /\ pc = "receiving"
    /\ clock < MaxClock
    /\ clock' = clock + 1
    /\ UNCHANGED <<state, user_states, pc, turn, outbox, call>>

SorryText == "Sorry, something went wrong."

\* websocket_endpoint up to the receive loop: accept, the optional token of
\* the URL, registration, the START run and the greeting.  A send to a client
\* that is gone raises; during the greeting the handler then just returns.
ConnectWith(tokens, client_gone) ==
    \E token \in tokens, gone \in client_gone :
         IF token \in {"valid", "valid_named"} /\ ~HasField("google_access_token")
         THEN /\ pc' = "crashed"
              /\ UNCHANGED <<state, user_states, clock, turn, outbox, call>>
         ELSE LET st0 == IF token = "valid_named" THEN [state EXCEPT !.name = Some(<<"A", "d", "a">>)] ELSE state
                  inp == Inputs(NoProvider, "created")
              IN  \E result \in {run_step(st0, inp, clock)} :
                  /\ state' = result.state
                  /\ user_states' = Register(result.state)
                  /\ turn' = TurnRecord("greeting", st0, inp, result)
                  /\ pc' = IF gone THEN "closed" ELSE "receiving"
                  /\ outbox' = IF gone THEN outbox ELSE Reply(result.state)
                  /\ UNCHANGED <<clock, call>>

Connect ==
    /\ pc = "new"
    /\ ConnectWith({"none", "invalid", "valid", "valid_named"}, BOOLEAN)

\* The workflow part of one loop iteration, for user_text (Optional text, or
\* a payload that is no string): run_step, the registry update and the reply
\* Providers(entry), Calendars(entry): what the provider and the calendar API
\* may do in a run entered at `entry`
TurnWith(user_text, Providers(_), Calendars(_)) ==
    LET st0 == [state EXCEPT !.last_user_message = user_text]
        entry == IF ValidState(st0) THEN route_start(st0) ELSE "none"
    IN  \E a \in Providers(entry), c \in Calendars(entry) :
          \E inp \in {Inputs(a, c)} : \E result \in {run_step(st0, inp, clock)} :
          LET st1 == IF ValidState(result.state) THEN result.state
                     ELSE [st0 EXCEPT !.system_message = Some(SorryText)]
          IN  /\ state' = st1
              /\ user_states' = Register(st1)
              /\ turn' = TurnRecord("turn", st0, inp, result)
              /\ outbox' = Reply(st1)
              /\ UNCHANGED <<pc, clock, call>>

Turn(user_text) == TurnWith(user_text, ProviderInputs, CalendarInputs)

\* A text message with a string payload, or an audio message that the
\* speech-to-text service transcribed: user_text is the utterance
ReceiveUtterance ==
    /\ pc = "receiving"
    /\ \E u \in Utterances : Turn(Some(u))

\* A text message whose payload is no string
ReceiveBadText ==
    /\ pc = "receiving"
    /\ Turn(NonStrPayload)

\* An audio message whose transcription fails (STTError, or another exception)
ReceiveBadAudio ==
    /\ pc = "receiving"
    /\ \E stt \in {"STTError", "Exception"} : outbox' = ErrorMessage
    /\ turn' = NoTurn
    /\ UNCHANGED <<state, user_states, pc, clock, call>>

\* {"type": "auth", "payload": {"google_token": ...}}
ReceiveAuth ==
    /\ pc = "receiving"
    /\ \E has_token \in BOOLEAN :
         IF has_token /\ ~HasField("google_access_token")
         THEN /\ pc' = "crashed"
              /\ UNCHANGED <<state, user_states, clock, turn, outbox, call>>
         ELSE /\ outbox' = IF has_token THEN StatusMessage ELSE ErrorMessage
              /\ user_states' = IF has_token THEN Register(state) ELSE user_states
              /\ turn' = NoTurn
              /\ UNCHANGED <<state, pc, clock, call>>

\* A message of any other type
ReceiveInvalidType ==
    /\ pc = "receiving"
    /\ outbox' = ErrorMessage
    /\ turn' = NoTurn
    /\ UNCHANGED <<state, user_states, pc, clock, call>>

\* A frame that is no JSON (json.loads raises) or no JSON object (data.get raises)
ReceiveMalformed ==
    /\ pc = "receiving"
    /\ pc' = "crashed"
    /\ UNCHANGED <<state, user_states, clock, turn, outbox, call>>

\* WebSocketDisconnect, raised by receive_text (or by a send_json of the loop,
\* whose message is then not delivered): the entry is removed, the handler returns
Disconnect ==
    /\ pc = "receiving"
    /\ pc' = "closed"
    /\ user_states' = Unregister
    /\ UNCHANGED <<state, clock, turn, outbox, call>>

Next ==
    \/ Connect
    \/ ReceiveUtterance
    \/ ReceiveBadText
    \/ ReceiveBadAudio
    \/ ReceiveAuth
    \/ ReceiveInvalidType
    \/ ReceiveMalformed
    \/ Disconnect
    \/ Tick

Spec == Init /\ [][Next]_vars

\* ------------------------------------------------------------------------
\* One session with a cooperative environment: the client connects without a
\* token, stays connected and keeps sending utterances; the provider answers
\* (at once, or after failed attempts) with what the step asks for; the
\* calendar API accepts the insert.
\* ------------------------------------------------------------------------
CooperativeBodies(entry) ==
    CASE entry = "ASK_NAME" -> {Body(JStr(Al), JNull, JNull, JNull), Body(JStr(Bo), JNull, JNull, JNull)}
      [] entry = "ASK_DATETIME" -> {Body(JNull, JStr(Tomorrow), JNull, JNull)}
      [] entry = "ASK_TITLE" -> {Body(JNull, JNull, JStr(Sync), JNull), Body(JNull, JNull, JStr(Plan), JNull)}
      [] entry = "AWAIT_CONFIRMATION" -> {YesBody}
      [] entry = "HANDLE_NEW_LOOP" -> {YesBody, Body(JNull, JNull, JNull, JStr(NO))}
      [] OTHER -> {}

CooperativeProvider(entry) ==
    IF ~Extracts(entry) THEN {NoProvider}
    ELSE {AnswersAt(1, << >>, Some(<<LBrace, Pairs(b), RBrace>>)) : b \in CooperativeBodies(entry)}
         \cup {AnswersAt(2, <<kind>>, Some(<<LBrace, Pairs(b), RBrace>>)) : kind \in FailKinds, b \in CooperativeBodies(entry)}

CooperativeCalendar(entry) == {"created"}

ConnectCoop ==
    /\ pc = "new"
    /\ ConnectWith({"none"}, {FALSE})

ReceiveCoop ==
    /\ pc = "receiving"
    /\ \E u \in Utterances : TurnWith(Some(u), CooperativeProvider, CooperativeCalendar)

NextCoop ==
    \/ ConnectCoop
    \/ ReceiveCoop
    \/ Tick

\* The client keeps sending and the handler answers each message: a step of
\* the session that changes something is eventually taken while one is possible
SpecCoop == Init /\ [][NextCoop]_vars /\ WF_vars(NextCoop)

\* ------------------------------------------------------------------------
\* The handler-level model: one call of run_step, of extract_fields or of
\* _run_with_retries, on a stored ConversationState and inputs drawn at the
\* start.  `call` keeps the arguments, `state` and `turn` receive the result.
\* ------------------------------------------------------------------------
\* step is a plain str: the graph's nodes, the terminal step, the legacy
\* literal of ConversationStep, the empty string and an unknown string
StoredSteps == GraphNodes \cup {"END", "ASK_ANOTHER", "", "BOGUS"}

StoredStates ==
    { [NewConversationState EXCEPT !.step = step, !.name = name, !.meeting_datetime = meeting_datetime,
                                   !.meeting_title = meeting_title, !.is_confirmed = is_confirmed,
                                   !.confirmation_status = confirmation_status]
      : step \in StoredSteps,
        name \in {None, Some(Bo)},
        meeting_datetime \in {None, Some(2)},
        meeting_title \in {None, Some(<<"P", "l", "a", "n">>)},
        is_confirmed \in BOOLEAN,
        confirmation_status \in {None, Some(YES), Some(NO)} }

Soon == <<"s", "o", "o", "n">>
Yesterday == <<"y", "e", "s", "t", "e", "r", "d", "a", "y">>
Now == <<"n", "o", "w">>
In365Days == <<"i", "n", " ", "3", "6", "5", " ", "d", "a", "y", "s">>
ShoutedYes == <<" ", "Y", "E", "S", " ">>
Maybe == <<"m", "a", "y", "b", "e">>
\* A title that holds the marker phrase "user:" in mixed case
MarkerTitle == <<"u", "S", "E", "r", ":", " ", "h", "i">>
TitleOfLen(n) == [i \in 1..n |-> "a"]
Ada == <<"A", "d", "a">>
Ok == <<"O", "k">>

\* An answer that declines and carries a name, a date and a title
NoFullBody == Body(JStr(Al), JStr(Tomorrow), JStr(Sync), JStr(NO))

\* Further completions: the number 0, the empty text, an object wrapped in
\* prose, a datetime phrase dateparser cannot read, one in the past, a
\* three-letter name, a name that is an affirmation
MoreContents ==
    { Some(<<ZeroTok>>), Some(<< >>), Some(<<Prose, LBrace, Pairs(FullBody), RBrace, Prose>>),
      Some(<<LBrace, Pairs(Body(JNull, JStr(Soon), JNull, JNull)), RBrace>>),
      Some(<<LBrace, Pairs(Body(JNull, JStr(Yesterday), JNull, JNull)), RBrace>>),
      Some(<<LBrace, Pairs(Body(JStr(Ada), JNull, JNull, JNull)), RBrace>>),
      Some(<<LBrace, Pairs(Body(JStr(Ok), JNull, JNull, JNull)), RBrace>>),
      Some(<<LBrace, Pairs(NoFullBody), RBrace>>),
      Some(<<LBrace, Pairs(Body(JNull, JNull, JNull, JStr(ShoutedYes))), RBrace>>),
      Some(<<LBrace, Pairs(Body(JNull, JNull, JNull, JStr(Maybe))), RBrace>>),
      Some(<<LBrace, Pairs(Body(JNull, JStr(Now), JNull, JNull)), RBrace>>),
      Some(<<LBrace, Pairs(Body(JNull, JNull, JStr(MarkerTitle), JNull)), RBrace>>),
      Some(<<LBrace, Pairs(Body(JNull, JNull, JStr(<<" ", "a", "b", " ">>), JNull)), RBrace>>),
      Some(<<LBrace, Pairs(Body(JNull, JNull, JStr(<<" ", "a", "b", "c", " ">>), JNull)), RBrace>>),
      Some(<<LBrace, Pairs(Body(JNull, JNull, JStr(TitleOfLen(100)), JNull)), RBrace>>),
      Some(<<LBrace, Pairs(Body(JNull, JNull, JStr(TitleOfLen(101)), JNull)), RBrace>>),
      Some(<<LBrace, Pairs(Body(JNull, JStr(In365Days), JNull, JNull)), RBrace>>) }

StepProviderInputs(node) ==
    IF Extracts(node) THEN ProviderBehaviours \cup {AnswersAt(1, << >>, content) : content \in MoreContents}
    ELSE {NoProvider}

InitStep ==
    /\ pc = "stored"
    /\ clock \in 0..MaxClock
    /\ \E st \in StoredStates, u \in Utterances :
         \E given \in {[st EXCEPT !.last_user_message = Some(u)]} :
           \E a \in StepProviderInputs(route_start(given)), c \in CalendarInputs(route_start(given)) :
             /\ call = [given |-> given, inp |-> Inputs(a, c)]
             /\ state = given
    /\ user_states = [id \in {user_id} |-> state]
    /\ turn = NoTurn
    /\ outbox = NoMessage

\* await run_step(state)
CallRunStep ==
    /\ pc = "stored"
    /\ \E result \in {run_step(state, call.inp, clock)} :
         /\ state' = result.state
         /\ turn' = TurnRecord("turn", state, call.inp, result)
    /\ pc' = "returned"
    /\ UNCHANGED <<user_states, clock, outbox, call>>

\* await extract_fields(state, state.last_user_message): when it raises, the
\* state it was given has not been assigned to
CallExtractFields ==
    /\ pc = "stored"
    /\ \E ex \in {extract_fields(state, call.inp.attempts, clock)} :
         /\ state' = ex.state
         /\ turn' = [NoTurn EXCEPT !.kind = "extract_fields", !.fault = ex.raised, !.llm_calls = ex.calls]
    /\ pc' = "extracted"
    /\ UNCHANGED <<user_states, clock, outbox, call>>

\* await _run_with_retries(user_message)
CallRunWithRetries ==
    /\ pc = "stored"
    /\ \E run \in {_run_with_retries(call.inp.attempts)} :
         turn' = [NoTurn EXCEPT !.kind = "_run_with_retries", !.llm_calls = run.calls,
                                !.raw_output = IF run.raw_output = EmptyDict THEN "{}" ELSE run.raw_output.k]
    /\ pc' = "retried"
    /\ UNCHANGED <<state, user_states, clock, outbox, call>>

NextStep ==
    \/ CallRunStep
    \/ CallExtractFields
    \/ CallRunWithRetries

SpecStep == InitStep /\ [][NextStep]_vars

\* ------------------------------------------------------------------------
\* The properties
\* ------------------------------------------------------------------------
SlotFields == {"name", "meeting_title", "meeting_datetime"}
InFlightSteps == {"ASK_NAME", "ASK_DATETIME", "ASK_TITLE", "CONFIRM_DETAILS", "AWAIT_CONFIRMATION", "HANDLE_NEW_LOOP"}

\* The provider times out or raises on every attempt the retry loop makes
ProviderFailsEveryAttempt == \A i \in 1..LLM_MAX_RETRIES : call.inp.attempts[i].kind # "ok"

\* C1: in every reachable state of a session, also after turns whose provider,
\* calendar or handler calls fail, step is one of START, ASK_NAME,
\* ASK_DATETIME, ASK_TITLE, CONFIRM_DETAILS, AWAIT_CONFIRMATION,
\* HANDLE_NEW_LOOP, END -- in the handler's state and in the registry.
C1_StepInEnumeration ==
    LET Enumeration == {"START", "ASK_NAME", "ASK_DATETIME", "ASK_TITLE", "CONFIRM_DETAILS",
                        "AWAIT_CONFIRMATION", "HANDLE_NEW_LOOP", "END"}
    IN  /\ state.step \in Enumeration
        /\ \A id \in DOMAIN user_states : user_states[id].step \in Enumeration

\* After a turn at ASK_TITLE whose handler raised
C1_Witness ==
    /\ turn.kind = "turn"
    /\ turn.fault = "TypeError"
    /\ state.step = "ASK_TITLE"
    /\ user_states[user_id].step = "ASK_TITLE"

\* C2 (as claimed): every inbound message that run_step handles without a
\* fault makes exactly one handler run; ASK_TITLE does not run CONFIRM_DETAILS
\* in the same turn.
C2_OneHandlerPerMessage ==
    turn.kind = "turn" /\ turn.fault = "none" => Len(turn.ran) = 1

\* The loop reset: HANDLE_NEW_LOOP acted on intent yes and all three slots are None
LoopReset ==
    /\ pc = "returned"
    /\ turn.ran = <<"HANDLE_NEW_LOOP">>
    /\ turn.intent = Some(YES)
    /\ \A f \in SlotFields : state[f] = None

\* C3: first-write-wins.  A slot (name, meeting_title, meeting_datetime) that
\* holds a value when extract_fields or a handler is called holds the same
\* value afterwards, whatever the provider returns, unless the handler was
\* HANDLE_NEW_LOOP acting on intent yes, which clears all three together.
C3_FirstWriteWins ==
    pc \in {"returned", "extracted"} =>
        \A f \in SlotFields : call.given[f] # None => state[f] = call.given[f] \/ LoopReset

\* ASK_DATETIME ran with a name held, the provider offered another name and
\* a date: the name is kept, the date is merged
C3_Witness ==
    /\ pc = "returned"
    /\ turn.ran = <<"ASK_DATETIME">>
    /\ call.given.name = Some(Bo)
    /\ call.given.meeting_datetime = None
    /\ call.inp.attempts[1] = Attempt("ok", Some(<<LBrace, Pairs(FullBody), RBrace>>))
    /\ state.name = Some(Bo)
    /\ state.meeting_datetime # None

\* C4 (as claimed): when a handler raises or the graph hits its recursion
\* limit, the state run_step returns has step START and a generic apology as
\* its system_message.
C4_FaultResetsToStart ==
    turn.kind = "turn" /\ turn.fault \in {"TypeError", "AttributeError", "GraphRecursionError"} =>
        state.step = "START" /\ state.system_message = Some(SorryText)

\* C5: run_step starts at the stored step's own handler when the stored step
\* is ASK_NAME, ASK_DATETIME, ASK_TITLE, CONFIRM_DETAILS, AWAIT_CONFIRMATION
\* or HANDLE_NEW_LOOP, and START does not run in that turn; for every other
\* stored value (END, the empty string, an unknown string) it starts at START.
C5_Resumption ==
    pc = "returned" =>
        /\ turn.ran # << >>
        /\ turn.ran[1] = (IF call.given.step \in InFlightSteps THEN call.given.step ELSE "START")
        /\ call.given.step \in InFlightSteps => \A i \in DOMAIN turn.ran : turn.ran[i] # "START"

\* The stored step was the empty string and START ran
C5_Witness ==
    /\ pc = "returned"
    /\ call.given.step = ""
    /\ turn.ran = <<"START">>

\* C6 (as claimed): extract_fields returns for every provider outcome; it
\* never raises to its caller.
C6_ExtractFieldsNeverRaises ==
    pc = "extracted" => turn.fault = "none"

\* The re-prompt of a step that extracts
RePromptOf(step) ==
    CASE step = "ASK_NAME" -> RetryNameGoal
      [] step = "ASK_DATETIME" -> RetryDatetimeGoal
      [] step = "ASK_TITLE" -> RetryTitleGoal
      [] step = "AWAIT_CONFIRMATION" -> NotSureText
      [] step = "HANDLE_NEW_LOOP" -> LoopRetryText

\* The handler of the stored step has nothing to go on without an extraction:
\* the slot it collects is empty (and the utterance is no skip word)
Waits(given) ==
    CASE given.step = "ASK_NAME" -> given.name = None
      [] given.step = "ASK_DATETIME" -> given.meeting_datetime = None
      [] given.step = "ASK_TITLE" -> given.meeting_title = None /\ UtteranceKey(given) \notin skip_words
      [] given.step \in {"AWAIT_CONFIRMATION", "HANDLE_NEW_LOOP"} -> TRUE

\* The step a handler leaves when the slot it collects is already filled
AdvancedFrom(step) ==
    CASE step = "ASK_NAME" -> "ASK_DATETIME"
      [] step = "ASK_DATETIME" -> "ASK_TITLE"
      [] step = "ASK_TITLE" -> "AWAIT_CONFIRMATION"

\* C7 (as claimed): when the provider fails on every attempt, the handler of
\* ASK_NAME, ASK_DATETIME, ASK_TITLE (non-skip utterance), AWAIT_CONFIRMATION
\* or HANDLE_NEW_LOOP leaves step unchanged and emits its re-prompt.
C7_AlwaysRePrompts ==
    /\ pc = "returned"
    /\ ProviderFailsEveryAttempt
    /\ Extracts(call.given.step)
    /\ ~(call.given.step = "ASK_TITLE" /\ UtteranceKey(call.given) \in skip_words)
    => /\ state.step = call.given.step
       /\ state.system_message = Some(RePromptOf(call.given.step))

\* C7 (amended): when the provider fails on every attempt, extract_fields
\* returns, with name, meeting_title, meeting_datetime and confirmation_status
\* as it received them; the handler keeps the three slots, and it leaves step
\* unchanged and emits its re-prompt when the slot it collects is still empty
\* (always, for AWAIT_CONFIRMATION and HANDLE_NEW_LOOP); a handler whose slot
\* is already filled advances as it does after a successful extraction.
C7_ProviderUnavailable ==
    ProviderFailsEveryAttempt =>
        /\ pc = "extracted" =>
              /\ turn.fault = "none"
              /\ \A f \in SlotFields \cup {"confirmation_status"} : state[f] = call.given[f]
        /\ pc = "returned" /\ Extracts(call.given.step) =>
              /\ turn.fault = "none"
              /\ \A f \in SlotFields : state[f] = call.given[f]
              /\ IF Waits(call.given)
                 THEN /\ state.step = call.given.step
                      /\ state.system_message = Some(RePromptOf(call.given.step))
                 ELSE state.step = AdvancedFrom(call.given.step)

\* ASK_NAME without a name, two timeouts: the step stays and the re-prompt is emitted
C7_Witness ==
    /\ pc = "returned"
    /\ call.given.step = "ASK_NAME"
    /\ call.given.name = None
    /\ \A i \in 1..LLM_MAX_RETRIES : call.inp.attempts[i].kind = "timeout"
    /\ turn.llm_calls = LLM_MAX_RETRIES
    /\ state.step = "ASK_NAME"
    /\ state.system_message = Some(RetryNameGoal)

\* C8: one extraction invokes the provider at most LLM_MAX_RETRIES times; the
\* first attempt that returns is the last one made; when every attempt fails
\* the loop has made exactly LLM_MAX_RETRIES attempts and returns {}.
C8_BoundedRetries ==
    /\ pc \in {"retried", "extracted", "returned"} => turn.llm_calls <= LLM_MAX_RETRIES
    /\ pc = "retried" =>
          /\ turn.llm_calls >= 1
          /\ call.inp.attempts[turn.llm_calls].kind = "ok" \/ turn.llm_calls = LLM_MAX_RETRIES
          /\ \A i \in 1..(turn.llm_calls - 1) : call.inp.attempts[i].kind # "ok"
          /\ ProviderFailsEveryAttempt => turn.raw_output = "{}"

\* Both attempts failed and a third one would have answered: two calls, {}
C8_Witness ==
    /\ pc = "retried"
    /\ ProviderFailsEveryAttempt
    /\ call.inp.attempts[LLM_MAX_RETRIES + 1].kind = "ok"
    /\ turn.llm_calls = LLM_MAX_RETRIES
    /\ turn.raw_output = "{}"

\* C9 (as claimed): no inbound message ends the receive loop; it is left
\* only when the client disconnects.
C9_LoopSurvivesEveryMessage ==
    [][pc = "receiving" => pc' \in {"receiving", "closed"}]_vars

\* C10 (as claimed): AWAIT_CONFIRMATION with this turn's intent yes and a
\* calendar that creates the event sets is_confirmed and moves to HANDLE_NEW_LOOP.
C10_YesConfirms ==
    /\ turn.kind = "turn"
    /\ turn.ran # << >>
    /\ turn.ran[1] = "AWAIT_CONFIRMATION"
    /\ turn.intent = Some(YES)
    /\ turn.calendar = "created"
    => state.is_confirmed /\ state.step = "HANDLE_NEW_LOOP"

\* The object the provider's first completion consists of (NullBody when the
\* first attempt fails or its completion is no bare object)
Offered ==
    LET first == call.inp.attempts[1]
    IN  IF first.kind = "ok" /\ first.content # None /\ Len(Val(first.content)) = 3
           /\ Val(first.content)[1] = LBrace /\ Val(first.content)[2].k = "pairs" /\ Val(first.content)[3] = RBrace
        THEN Val(first.content)[2].body
        ELSE NullBody

\* The slots that held a value when the call was made hold it afterwards
HeldSlotsKept == \A f \in SlotFields : call.given[f] # None => state[f] = call.given[f]

\* C11 (as claimed): AWAIT_CONFIRMATION with this turn's intent yes and a
\* calendar that fails to create the event leaves is_confirmed false, step
\* END and the calendar-failure message, which is neither the success nor the
\* cancellation message.
C11_CalendarFailureEnds ==
    /\ turn.kind = "turn"
    /\ turn.ran # << >>
    /\ turn.ran[1] = "AWAIT_CONFIRMATION"
    /\ turn.intent = Some(YES)
    /\ turn.calendar \in {"HttpError", "GoogleAuthError"}
    => /\ ~state.is_confirmed
       /\ state.step = "END"
       /\ state.system_message = Some(CalendarFailureText)
       /\ CalendarFailureText # CancelledText

C13_UncertainStays ==
    pc = "returned" /\ call.given.step = "AWAIT_CONFIRMATION" /\ turn.intent \notin {Some(YES), Some(NO)} =>
        /\ state.step = "AWAIT_CONFIRMATION"
        /\ state.is_confirmed = call.given.is_confirmed
        /\ turn.create_event_calls = 0
        /\ turn.api_calls = 0
        /\ turn.fault = "none" => state.system_message = Some(NotSureText)

\* The provider answers uncertain
C13_Witness ==
    /\ pc = "returned"
    /\ call.given.step = "AWAIT_CONFIRMATION"
    /\ Offered = Body(JNull, JNull, JNull, JStr(UNCERTAIN))
    /\ turn.intent = Some(UNCERTAIN)
    /\ state.step = "AWAIT_CONFIRMATION"
    /\ state.system_message = Some(NotSureText)

\* C14: is_confirmed is true only after a successful event creation.  A new
\* state has it false, and a run_step that returns a state with is_confirmed
\* true was either given one or invoked create_event in that turn, acting on
\* intent yes, with a calendar that created the event.
C14_ConfirmedOnlyByCreation ==
    /\ ~NewConversationState.is_confirmed
    /\ pc = "returned" /\ state.is_confirmed =>
        \/ call.given.is_confirmed
        \/ /\ turn.create_event_calls = 1
           /\ turn.intent = Some(YES)
           /\ call.inp.calendar = "created"

\* HANDLE_NEW_LOOP acts on a no and the flag it was given is carried over
C14_Witness ==
    /\ pc = "returned"
    /\ turn.ran = <<"HANDLE_NEW_LOOP">>
    /\ turn.fault = "none"
    /\ turn.intent = Some(NO)
    /\ call.given.is_confirmed
    /\ state.is_confirmed
    /\ state.step = "END"

\* Nothing the provider returns first carries a confirmation_status, or the
\* provider fails on every attempt
NoIntentOffered ==
    \/ ProviderFailsEveryAttempt
    \/ LET first == call.inp.attempts[1]
       IN  /\ first.kind = "ok"
           /\ \/ first.content = None
              \/ \A i \in 1..Len(Val(first.content)) : Val(first.content)[i].body.confirmation_status = JNull

\* C15: a yes or no left in confirmation_status by an earlier turn is not
\* acted on.  When AWAIT_CONFIRMATION or HANDLE_NEW_LOOP runs and this turn's
\* extraction yields no intent, the handler acts on no intent: no event
\* creation, no cancellation and no loop reset.
C15_StaleIntentIgnored ==
    pc = "returned" /\ call.given.step \in {"AWAIT_CONFIRMATION", "HANDLE_NEW_LOOP"} /\ NoIntentOffered =>
        /\ turn.intent = None
        /\ turn.create_event_calls = 0
        /\ turn.api_calls = 0
        /\ state.step = call.given.step
        /\ state.is_confirmed = call.given.is_confirmed
        /\ HeldSlotsKept

\* A stored yes, a provider that answers without intent, HANDLE_NEW_LOOP re-prompts
C15_Witness ==
    /\ pc = "returned"
    /\ call.given.step = "HANDLE_NEW_LOOP"
    /\ call.given.confirmation_status = Some(YES)
    /\ call.given.name # None
    /\ NoIntentOffered
    /\ turn.fault = "none"
    /\ state.name = call.given.name
    /\ state.system_message = Some(LoopRetryText)

C17_StartGreets ==
    pc = "returned" /\ turn.ran # << >> /\ turn.ran[1] = "START" =>
        /\ turn.ran = <<"START">>
        /\ turn.fault = "none"
        /\ turn.llm_calls = 0
        /\ \A f \in SlotFields : state[f] = call.given[f]
        /\ IF call.given.name = None
           THEN /\ state.step = "ASK_NAME"
                /\ state.system_message = Some("Greet the user warmly and ask for their name to start scheduling.")
           ELSE /\ state.step = "ASK_DATETIME"
                /\ state.system_message = Some("Greet {state.name} warmly back. Mention you are ready to schedule on their calendar. Ask for the date and time.")

\* A conversation that had ended, with its name still stored, is greeted back
C17_Witness ==
    /\ pc = "returned"
    /\ call.given.step = "END"
    /\ call.given.name = Some(Bo)
    /\ call.given.meeting_datetime # None
    /\ turn.ran = <<"START">>
    /\ state.step = "ASK_DATETIME"
    /\ state.meeting_datetime = call.given.meeting_datetime

\* The provider's first completion carries no name the validator accepts, or
\* the provider fails on every attempt
NoValidNameOffered ==
    \/ ProviderFailsEveryAttempt
    \/ LET first == call.inp.attempts[1]
       IN  /\ first.kind = "ok"
           /\ \/ first.content = None
              \/ \A i \in 1..Len(Val(first.content)) :
                    validate_name(FieldValue(Val(first.content)[i].body.name)) = None

\* C18: the ASK_NAME handler runs extraction and sets step ASK_DATETIME if a
\* valid name resulted; when no name was extracted or the validator rejected
\* the candidate, name stays unset, step stays ASK_NAME and the re-prompt for
\* the name is the message (when the extraction raises, the state is as given).
C18_AskName ==
    pc = "returned" /\ call.given.step = "ASK_NAME" =>
        /\ turn.ran[1] = "ASK_NAME"
        /\ turn.llm_calls >= 1
        /\ turn.fault # "none" => state = call.given
        /\ turn.fault = "none" =>
             IF state.name # None
             THEN state.step = "ASK_DATETIME"
             ELSE state.step = "ASK_NAME" /\ state.system_message = Some(RetryNameGoal)
        /\ call.given.name = None /\ NoValidNameOffered => state.name = None /\ state.step = "ASK_NAME"
        /\ call.given.name = None /\ Offered.name = JStr(Al) /\ ~SchemaViolation(Offered) =>
             state.name = Some(Al) /\ state.step = "ASK_DATETIME"

\* The provider extracts the name "Ok", which the validator rejects
C18_Witness ==
    /\ pc = "returned"
    /\ call.given.step = "ASK_NAME"
    /\ call.given.name = None
    /\ Offered.name = JStr(Ok)
    /\ turn.fault = "none"
    /\ state.name = None
    /\ state.step = "ASK_NAME"
    /\ state.system_message = Some(RetryNameGoal)

\* C19 (as claimed): a candidate of letters, spaces, hyphens and apostrophes,
\* of length 2 to 50 and not in the denylist, is accepted unchanged; a state in
\* ASK_NAME with name unset whose provider extracts the name Ada stores it
\* and advances to ASK_DATETIME.
C19_AdaIsStored ==
    pc = "returned" /\ call.given.step = "ASK_NAME" /\ call.given.name = None /\ Offered.name = JStr(Ada) =>
        /\ validate_name(Some(Ada)) = Some(Ada)
        /\ state.name = Some(Ada)
        /\ state.step = "ASK_DATETIME"

\* The provider's first completion carries no phrase, one dateparser cannot
\* read, one in the past or one more than 365 days ahead, or the provider
\* fails on every attempt
NoValidDatetimeOffered ==
    \/ ProviderFailsEveryAttempt
    \/ LET first == call.inp.attempts[1]
       IN  /\ first.kind = "ok"
           /\ \/ first.content = None
              \/ \A i \in 1..Len(Val(first.content)) :
                    Val(first.content)[i].body.meeting_datetime_text \in {JNull, JStr(Soon), JStr(Yesterday), JStr(In366Days)}

\* C20: the ASK_DATETIME handler runs extraction and sets step ASK_TITLE if a
\* valid future datetime resulted; with no phrase, a phrase that cannot be
\* resolved or an instant the validator rejects, meeting_datetime stays unset
\* and step stays ASK_DATETIME.
C20_AskDatetime ==
    pc = "returned" /\ call.given.step = "ASK_DATETIME" =>
        /\ turn.ran[1] = "ASK_DATETIME"
        /\ turn.llm_calls >= 1
        /\ turn.fault # "none" => state = call.given
        /\ turn.fault = "none" =>
             IF state.meeting_datetime # None
             THEN /\ state.step = "ASK_TITLE"
                  /\ call.given.meeting_datetime = None =>
                       Val(state.meeting_datetime) > clock /\ Val(state.meeting_datetime) <= clock + 365
             ELSE state.step = "ASK_DATETIME" /\ state.system_message = Some(RetryDatetimeGoal)
        /\ call.given.meeting_datetime = None /\ NoValidDatetimeOffered =>
             state.meeting_datetime = None /\ state.step = "ASK_DATETIME"
        /\ call.given.meeting_datetime = None /\ Offered.meeting_datetime_text = JStr(Tomorrow) /\ ~SchemaViolation(Offered) =>
             state.meeting_datetime = Some(clock + 1) /\ state.step = "ASK_TITLE"

\* The provider extracts "in 366 days", which the validator rejects
C20_Witness ==
    /\ pc = "returned"
    /\ call.given.step = "ASK_DATETIME"
    /\ call.given.meeting_datetime = None
    /\ Offered.meeting_datetime_text = JStr(In366Days)
    /\ turn.fault = "none"
    /\ state.meeting_datetime = None
    /\ state.step = "ASK_DATETIME"
    /\ state.system_message = Some(RetryDatetimeGoal)

\* C21 (as claimed): the ASK_TITLE handler advances to CONFIRM_DETAILS if and
\* only if a valid title is present after extraction or the trimmed,
\* lower-cased utterance is one of no, nope, skip, none, not needed; in every
\* other case step remains ASK_TITLE and the re-prompt for the title is the
\* message.
C21_TitleOrSkipAdvances ==
    pc = "returned" /\ call.given.step = "ASK_TITLE" =>
        IF state.meeting_title # None \/ UtteranceKey(call.given) \in skip_words
        THEN Len(turn.ran) >= 2 /\ turn.ran[1] = "ASK_TITLE" /\ turn.ran[2] = "CONFIRM_DETAILS"
        ELSE turn.ran = <<"ASK_TITLE">> /\ state.step = "ASK_TITLE" /\ state.system_message = Some(RetryTitleGoal)

\* ------------------------------------------------------------------------
\* The validators and the response parser, called on their own
\* ------------------------------------------------------------------------
\* A datetime value: its instant (in days; for a naive value, the instant its
\* fields name in UTC) and whether tzinfo is set
Aware(t) == [instant |-> t, tzinfo |-> "UTC"]
Naive(t) == [instant |-> t, tzinfo |-> "none"]

ValidatorResult(raised, validated) == [raised |-> raised, validated |-> validated]

\* validate_meeting_datetime that rejects a naive candidate
validate_meeting_datetime_tzinfo_strict(meeting_datetime, now, utcnow) ==
    IF meeting_datetime = None THEN ValidatorResult("none", None)
    ELSE LET ref == IF now = None THEN Aware(utcnow) ELSE Val(now)
         IN  IF Val(meeting_datetime).tzinfo = "none" THEN ValidatorResult("none", None)
             ELSE IF ref.tzinfo = "none" THEN ValidatorResult("TypeError", None)
             ELSE IF Val(meeting_datetime).instant <= ref.instant THEN ValidatorResult("none", None)
             ELSE IF Val(meeting_datetime).instant > ref.instant + 365 THEN ValidatorResult("none", None)
             ELSE ValidatorResult("none", meeting_datetime)

\* validate_meeting_datetime on datetime values that carry tzinfo.
\* meeting_datetime, now: Optional datetime; utcnow: the wall clock.  Comparing
\* an aware with a naive datetime raises TypeError.
validate_meeting_datetime_tzinfo(meeting_datetime, now, utcnow) ==
    IF meeting_datetime = None THEN ValidatorResult("none", None)
    ELSE LET ref == IF now = None THEN Aware(utcnow) ELSE Val(now)
             candidate == IF Val(meeting_datetime).tzinfo = "none" THEN Aware(Val(meeting_datetime).instant)
                          ELSE Val(meeting_datetime)
         IN  IF ref.tzinfo = "none" THEN ValidatorResult("TypeError", None)
             ELSE IF candidate.instant <= ref.instant THEN ValidatorResult("none", None)
             ELSE IF candidate.instant > ref.instant + 365 THEN ValidatorResult("none", None)
             ELSE ValidatorResult("none", Some(candidate))

\* The longest response text drawn, in lexical pieces
MaxTextLen == 5

\* Candidate instants, as days from the wall clock
Offsets == {-1, 0, 1, 365, 366}

RECURSIVE TextsOfLen(_)
TextsOfLen(n) ==
    IF n = 0 THEN { << >> }
    ELSE { Append(text, tok) : text \in TextsOfLen(n - 1),
                               tok \in {LBrace, RBrace, Prose, Pairs(Body(JStr(Al), JNull, JNull, JNull))} }

\* Two objects in one text, with and without prose between them
TwoObjects ==
    { <<LBrace, Pairs(Body(JStr(Al), JNull, JNull, JNull)), RBrace, Prose, LBrace, Pairs(Body(JStr(Bo), JNull, JNull, JNull)), RBrace>>,
      <<LBrace, Pairs(Body(JStr(Al), JNull, JNull, JNull)), RBrace, LBrace, Pairs(Body(JStr(Bo), JNull, JNull, JNull)), RBrace>> }

ResponseTexts ==
    {None, Some(<<ListTok>>), Some(<<ZeroTok>>)}
    \cup {Some(text) : text \in TwoObjects \cup UNION {TextsOfLen(n) : n \in 0..MaxTextLen}}

\* title, api, attempts: the arguments of a collaborator call (the event's
\* title, what the Google API answers, what each attempt of the speech engine
\* does); calls and value: how often the collaborator ran, and what was returned
PureCall(fn, meeting_datetime, now, text) ==
    [fn |-> fn, meeting_datetime |-> meeting_datetime, now |-> now, text |-> text,
     raised |-> "pending", validated |-> None, parsed |-> EmptyDict,
     title |-> None, api |-> "created", attempts |-> << >>, calls |-> 0, value |-> None]

InitPure ==
    /\ pc = "args"
    /\ clock \in 0..MaxClock
    /\ \/ \E d \in {None} \cup {Some(Aware(clock + k)) : k \in Offsets} \cup {Some(Naive(clock + k)) : k \in Offsets},
            now \in {None, Some(Aware(clock)), Some(Naive(clock))} :
              call = PureCall("validate_meeting_datetime", d, now, None)
       \/ /\ clock = 0
          /\ \E text \in ResponseTexts : call = PureCall("_safe_json_parse", None, None, text)
       \/ \E title \in {None, Some(<< >>), Some(Sync), Some(Plan)},
             start_datetime \in {None, Some(clock + 1)}, api \in CalendarOutcomes :
               call = [PureCall("create_event", start_datetime, None, None)
                           EXCEPT !.title = title, !.api = api]
       \/ /\ clock = 0
          /\ \E text \in {None, Some(<< >>), Some(<<" ">>), Some(<<" ", " ">>), Some(Sync), Some(<<" ", "a", " ">>)},
                first \in EngineOutcomes, second \in EngineOutcomes :
                  call = [PureCall("synthesize", None, None, text) EXCEPT !.attempts = <<first, second>>]
       \/ /\ clock = 0
          /\ \E audio_bytes \in {None, Some(<< >>), Some(<<"R", "I", "F", "F">>)},
                outcome \in TranscriptionOutcomes, transcript \in {<< >>, Sync, Plan} :
                  call = [PureCall("transcribe", None, None, audio_bytes)
                              EXCEPT !.attempts = <<outcome>>, !.title = Some(transcript)]
    /\ state = NewConversationState
    /\ user_states = << >>
    /\ turn = NoTurn
    /\ outbox = NoMessage

\* validate_meeting_datetime(meeting_datetime, now=now)
CallValidateMeetingDatetime ==
    /\ pc = "args"
    /\ call.fn = "validate_meeting_datetime"
    /\ \E r \in {validate_meeting_datetime_tzinfo(call.meeting_datetime, call.now, clock)} :
         call' = [call EXCEPT !.raised = r.raised, !.validated = r.validated]
    /\ pc' = "done"
    /\ UNCHANGED <<state, user_states, clock, turn, outbox>>

\* _safe_json_parse(text)
CallSafeJsonParse ==
    /\ pc = "args"
    /\ call.fn = "_safe_json_parse"
    /\ call' = [call EXCEPT !.raised = "none", !.parsed = _safe_json_parse(call.text)]
    /\ pc' = "done"
    /\ UNCHANGED <<state, user_states, clock, turn, outbox>>

\* GoogleCalendarService.create_event(title=..., start_datetime=...)
CallCreateEvent ==
    /\ pc = "args"
    /\ call.fn = "create_event"
    /\ \E r \in {create_event(call.title, call.meeting_datetime, call.api)} :
         call' = [call EXCEPT !.raised = r.error, !.calls = r.attempts,
                              !.value = IF r.raised THEN None ELSE Some("event")]
    /\ pc' = "done"
    /\ UNCHANGED <<state, user_states, clock, turn, outbox>>

\* KokoroTTSService.synthesize(text)
CallSynthesize ==
    /\ pc = "args"
    /\ call.fn = "synthesize"
    /\ \E r \in {synthesize(call.text, call.attempts)} :
         call' = [call EXCEPT !.raised = r.error, !.calls = r.calls, !.value = r.value]
    /\ pc' = "done"
    /\ UNCHANGED <<state, user_states, clock, turn, outbox>>

\* WhisperSTTService.transcribe(audio_bytes); call.text holds the audio
\* and call.title the transcript the model would produce
CallTranscribe ==
    /\ pc = "args"
    /\ call.fn = "transcribe"
    /\ \E r \in {transcribe(call.text, call.attempts[1], Val(call.title))} :
         call' = [call EXCEPT !.raised = r.error, !.calls = r.calls, !.value = r.value]
    /\ pc' = "done"
    /\ UNCHANGED <<state, user_states, clock, turn, outbox>>

NextPure ==
    \/ CallValidateMeetingDatetime
    \/ CallSafeJsonParse
    \/ CallCreateEvent
    \/ CallSynthesize
    \/ CallTranscribe

SpecPure == InitPure /\ [][NextPure]_vars

\* The reference instant of a validator call: now, or the wall clock
Reference == IF call.now = None THEN Aware(clock) ELSE Val(call.now)

\* The candidate's instant lies after the reference and at most 365 days after it
InWindow ==
    /\ call.meeting_datetime # None
    /\ Reference.instant < Val(call.meeting_datetime).instant
    /\ Val(call.meeting_datetime).instant <= Reference.instant + 365

C23_StoredDatetimeInWindow ==
    pc \in {"extracted", "returned"} /\ state.meeting_datetime # call.given.meeting_datetime /\ state.meeting_datetime # None =>
        /\ call.given.meeting_datetime = None
        /\ Val(state.meeting_datetime) > clock
        /\ Val(state.meeting_datetime) <= clock + 365

\* The phrase "in 365 days" resolves to the last instant of the window and is stored
C23_Witness ==
    /\ pc = "extracted"
    /\ call.given.meeting_datetime = None
    /\ Offered.meeting_datetime_text = JStr(In365Days)
    /\ state.meeting_datetime = Some(clock + 365)

\* C24: a provider record that fails schema enforcement is discarded as a
\* whole.  extract_fields returns the state with name, meeting_title,
\* meeting_datetime and confirmation_status unchanged, even when other fields
\* of the record are well-formed.
C24_SchemaViolationDiscardsAll ==
    pc = "extracted" /\ SchemaViolation(Offered) =>
        /\ turn.fault = "none"
        /\ turn.llm_calls = 1
        /\ \A f \in SlotFields \cup {"confirmation_status"} : state[f] = call.given[f]
        /\ state = call.given

\* A record whose name is a list, with a valid phrase, title and token, on an empty state
C24_Witness ==
    /\ pc = "extracted"
    /\ Offered = Body(JList, JStr(Tomorrow), JStr(Sync), JStr(YES))
    /\ \A f \in SlotFields \cup {"confirmation_status"} : call.given[f] = None
    /\ \A f \in SlotFields \cup {"confirmation_status"} : state[f] = None

\* No completion the provider returns first carries a confirmation token
\* other than a word outside the enumeration, or the provider fails on every
\* attempt, or the record fails the schema
NoEnumTokenOffered ==
    \/ ProviderFailsEveryAttempt
    \/ SchemaViolation(Offered)
    \/ LET first == call.inp.attempts[1]
       IN  /\ first.kind = "ok"
           /\ \/ first.content = None
              \/ \A i \in 1..Len(Val(first.content)) :
                    Val(first.content)[i].body.confirmation_status \in {JNull, JStr(Maybe)}

\* C25: extraction sets confirmation_status to yes, no or uncertain exactly
\* when the provider's confirmation token is one of those words, ignoring case
\* and surrounding whitespace; with no token or another word it keeps the
\* value it had.
C25_ConfirmationToken ==
    pc = "extracted" =>
        /\ ~SchemaViolation(Offered) /\ Offered.confirmation_status \in {JStr(YES), JStr(ShoutedYes)} =>
             state.confirmation_status = Some(YES)
        /\ ~SchemaViolation(Offered) /\ Offered.confirmation_status = JStr(NO) => state.confirmation_status = Some(NO)
        /\ ~SchemaViolation(Offered) /\ Offered.confirmation_status = JStr(UNCERTAIN) =>
             state.confirmation_status = Some(UNCERTAIN)
        /\ NoEnumTokenOffered => state.confirmation_status = call.given.confirmation_status
        /\ state.confirmation_status \in {None, Some(YES), Some(NO), Some(UNCERTAIN)}

\* The token " YES " replaces a stored no
C25_Witness ==
    /\ pc = "extracted"
    /\ call.given.confirmation_status = Some(NO)
    /\ Offered.confirmation_status = JStr(ShoutedYes)
    /\ state.confirmation_status = Some(YES)

\* The title of the provider's first completion, with surrounding spaces removed
OfferedTitle == strip(Offered.meeting_title.s)

\* C26: the title validator returns the whitespace-trimmed candidate when its
\* trimmed length is between 3 and 100 and it contains no prompt-injection
\* marker phrase in any letter case, and no value otherwise; a title holding a
\* marker phrase is never stored in meeting_title.
C26_TitleValidator ==
    pc = "extracted" =>
        /\ call.given.meeting_title = None /\ ~SchemaViolation(Offered) /\ Offered.meeting_title.t = "str" =>
             state.meeting_title =
                IF /\ Len(OfferedTitle) >= 3
                   /\ Len(OfferedTitle) <= 100
                   /\ \A phrase \in forbidden_phrases : ~Contains(phrase, lower(OfferedTitle))
                THEN Some(OfferedTitle)
                ELSE None
        /\ state.meeting_title # call.given.meeting_title =>
             /\ state.meeting_title # None
             /\ Len(Val(state.meeting_title)) \in 3..100
             /\ Val(state.meeting_title)[1] # " "
             /\ \A phrase \in forbidden_phrases : ~Contains(phrase, lower(Val(state.meeting_title)))
        /\ Offered.meeting_title \in {JStr(MarkerTitle), JStr(TitleOfLen(101)), JStr(<<" ", "a", "b", " ">>)} =>
             state.meeting_title = call.given.meeting_title
        /\ call.given.meeting_title = None /\ Offered.meeting_title = JStr(<<" ", "a", "b", "c", " ">>) =>
             state.meeting_title = Some(<<"a", "b", "c">>)

\* A title holding "uSEr:" is offered to an empty slot and not stored
C26_Witness ==
    /\ pc = "extracted"
    /\ call.given.meeting_title = None
    /\ Offered.meeting_title = JStr(MarkerTitle)
    /\ turn.fault = "none"
    /\ state.meeting_title = None

\* The first balanced top-level object substring of a text: from its first
\* opening brace to the closing brace that matches it (<< >> when there is none)
FirstBalancedObject(text) ==
    LET start == find(text, LBrace)
        depth(j) == Cardinality({k \in start..j : text[k] = LBrace}) - Cardinality({k \in start..j : text[k] = RBrace})
        ends == {j \in start..Len(text) : depth(j) = 0}
    IN  IF start = 0 \/ ends = {} THEN << >>
        ELSE SubSeq(text, start, CHOOSE j \in ends : \A k \in ends : j <= k)

\* C27 (as claimed): the parser first parses the whole text; if that fails it
\* parses the first balanced top-level object substring, so that one object
\* followed by text holding a closing brace or a second object still yields
\* the first object; if that fails too the result is no extraction.
C27_FirstBalancedObject ==
    pc = "done" /\ call.fn = "_safe_json_parse" =>
        call.parsed =
            IF ~Truthy(call.text) THEN EmptyDict
            ELSE IF json_loads(Val(call.text)) # JSONDecodeError THEN json_loads(Val(call.text))
            ELSE IF json_loads(FirstBalancedObject(Val(call.text))) # JSONDecodeError
                 THEN json_loads(FirstBalancedObject(Val(call.text)))
                 ELSE EmptyDict

\* C28 (as claimed): an entry for the session is in the registry from connect
\* on, and whenever the session's handler has ended (disconnect during the
\* greeting, disconnect in the message loop, or an error) the registry holds
\* no entry for the session.
C28_RegistryLifecycle ==
    /\ pc = "receiving" => user_id \in DOMAIN user_states
    /\ pc \in {"closed", "crashed"} => user_id \notin DOMAIN user_states

\* ------------------------------------------------------------------------
\* app/websocket.py: two sessions served by one process.  Each variable that
\* is local to websocket_endpoint is a function of the session; the registry
\* user_states is shared.  The coroutines interleave where the code awaits:
\* at receive_text, at run_step and at send_json.
\*   state[s]            the local `state`
\*   pc[s]               "new", "receiving", "running" (awaiting run_step),
\*                       "sending", "closed", "crashed"
\*   call.user_id[s]     the local `user_id`
\*   call.inbox[s]       the frames the client sent that receive_text has not returned yet
\*   call.pending[s]     messages accepted whose reply was not sent yet
\*   call.produced[s]    the state the last finished run_step of the session produced
\*   turn                the session that took the last step, and the step
\* ------------------------------------------------------------------------
Sessions == {"a", "b"}

\* The values id(websocket) can take
Addresses == {"ws1", "ws2"}

\* The most frames a client has in flight
MaxInbox == 1

Live == {"receiving", "running", "sending"}

\* An identifier shared by all connections
FreeIds_shared(used) == Addresses

\* str(id(websocket)): distinct from the id of every object alive at the time
FreeIds(used) == Addresses \ used

\* The handler takes the next frame at `await websocket.receive_text()`,
\* also while a turn of the session is in progress
CanReceive_concurrent(p) == p \in Live

\* The handler is at `await websocket.receive_text()`
CanReceive(p) == p = "receiving"

\* user_states[id] = st, and user_states.pop(id, None)
Put(registry, id, st) == [i \in DOMAIN registry \cup {id} |-> IF i = id THEN st ELSE registry[i]]
Pop(registry, id) == [i \in DOMAIN registry \ {id} |-> registry[i]]

\* What the provider answers in the two-session model
TwoProviderInputs(node) ==
    IF Extracts(node)
    THEN {AnswersAt(1, << >>, content) :
            content \in {None, Some(<<LBrace, Pairs(Body(JStr(Al), JNull, JNull, JNull)), RBrace>>),
                         Some(<<LBrace, Pairs(Body(JNull, JStr(Tomorrow), JNull, JNull)), RBrace>>)}}
    ELSE {NoProvider}

InitTwo ==
    /\ state = [s \in Sessions |-> NewConversationState]
    /\ user_states = << >>
    /\ pc = [s \in Sessions |-> "new"]
    /\ clock = 0
    /\ turn = [session |-> "none", kind |-> "none"]
    /\ outbox = [s \in Sessions |-> NoMessage]
    /\ call = [user_id |-> [s \in Sessions |-> "none"], inbox |-> [s \in Sessions |-> << >>],
               pending |-> [s \in Sessions |-> 0], produced |-> [s \in Sessions |-> NewConversationState]]

\* websocket_endpoint up to the receive loop, for a connection without token
ConnectTwo(s) ==
    /\ pc[s] \in {"new", "closed", "crashed"}
    /\ \E id \in FreeIds({call.user_id[t] : t \in {t \in Sessions : pc[t] \in Live}}), gone \in BOOLEAN :
         \E result \in {run_step(NewConversationState, Inputs(NoProvider, "created"), clock)} :
           /\ state' = [state EXCEPT ![s] = result.state]
           /\ user_states' = Put(user_states, id, result.state)
           /\ pc' = [pc EXCEPT ![s] = IF gone THEN "closed" ELSE "receiving"]
           /\ outbox' = [outbox EXCEPT ![s] = IF gone THEN NoMessage ELSE Reply(result.state)]
           /\ call' = [call EXCEPT !.user_id[s] = id, !.inbox[s] = << >>, !.pending[s] = 0, !.produced[s] = result.state]
           /\ turn' = [session |-> s, kind |-> "connect"]
    /\ UNCHANGED clock

\* The client sends a text message
ClientSends(s) ==
    /\ pc[s] \in Live
    /\ Len(call.inbox[s]) < MaxInbox
    /\ call' = [call EXCEPT !.inbox[s] = Append(@, <<"h", "e", "l", "l", "o">>)]
    /\ turn' = [session |-> s, kind |-> "client"]
    /\ UNCHANGED <<state, user_states, pc, clock, outbox>>

\* receive_text returns a frame; state.last_user_message = user_text, on the
\* object the registry holds too
ReceiveTwo(s) ==
    /\ CanReceive(pc[s])
    /\ call.pending[s] < 2
    /\ call.inbox[s] # << >>
    /\ state' = [state EXCEPT ![s].last_user_message = Some(Head(call.inbox[s]))]
    /\ user_states' = Put(user_states, call.user_id[s], state'[s])
    /\ pc' = [pc EXCEPT ![s] = "running"]
    /\ call' = [call EXCEPT !.inbox[s] = Tail(@), !.pending[s] = @ + 1]
    /\ turn' = [session |-> s, kind |-> "receive"]
    /\ UNCHANGED <<clock, outbox>>

\* run_step returns; the result is assigned to `state` and saved in the registry
RunTwo(s) ==
    /\ pc[s] = "running"
    /\ \E a \in TwoProviderInputs(route_start(state[s])) :
         \E result \in {run_step(state[s], Inputs(a, "created"), clock)} :
           /\ state' = [state EXCEPT ![s] = result.state]
           /\ user_states' = Put(user_states, call.user_id[s], result.state)
           /\ call' = [call EXCEPT !.produced[s] = result.state]
    /\ pc' = [pc EXCEPT ![s] = "sending"]
    /\ turn' = [session |-> s, kind |-> "run"]
    /\ UNCHANGED <<clock, outbox>>

\* send_json of the reply; when the client is gone it raises
\* WebSocketDisconnect, the entry is removed and the handler returns
SendTwo(s) ==
    /\ pc[s] = "sending"
    /\ \E gone \in BOOLEAN :
         IF gone
         THEN /\ pc' = [pc EXCEPT ![s] = "closed"]
              /\ user_states' = Pop(user_states, call.user_id[s])
              /\ call' = [call EXCEPT !.pending[s] = 0, !.inbox[s] = << >>]
              /\ UNCHANGED outbox
         ELSE /\ pc' = [pc EXCEPT ![s] = "receiving"]
              /\ outbox' = [outbox EXCEPT ![s] = Reply(state[s])]
              /\ call' = [call EXCEPT !.pending[s] = @ - 1]
              /\ UNCHANGED user_states
    /\ turn' = [session |-> s, kind |-> "send"]
    /\ UNCHANGED <<state, clock>>

\* receive_text raises WebSocketDisconnect
DisconnectTwo(s) ==
    /\ pc[s] = "receiving"
    /\ pc' = [pc EXCEPT ![s] = "closed"]
    /\ user_states' = Pop(user_states, call.user_id[s])
    /\ call' = [call EXCEPT !.inbox[s] = << >>]
    /\ turn' = [session |-> s, kind |-> "disconnect"]
    /\ UNCHANGED <<state, clock, outbox>>

\* A frame that is no JSON object ends the handler by an exception
MalformedTwo(s) ==
    /\ pc[s] = "receiving"
    /\ pc' = [pc EXCEPT ![s] = "crashed"]
    /\ call' = [call EXCEPT !.inbox[s] = << >>]
    /\ turn' = [session |-> s, kind |-> "malformed"]
    /\ UNCHANGED <<state, user_states, clock, outbox>>

NextTwo ==
    \E s \in Sessions :
        \/ ConnectTwo(s)
        \/ ClientSends(s)
        \/ ReceiveTwo(s)
        \/ RunTwo(s)
        \/ SendTwo(s)
        \/ DisconnectTwo(s)
        \/ MalformedTwo(s)

SpecTwo == InitTwo /\ [][NextTwo]_vars

\* C29: sessions are isolated.  Under every interleaving of the steps of two
\* connected sessions, a step of one session leaves the other session's
\* ConversationState as it was, both the handler's local state and the entry
\* the registry holds for it, and the entry of every connected session is the
\* state of that session.
C29_SessionsIsolated ==
    [][ /\ \A s \in Sessions : turn'.session # s /\ pc[s] \in Live =>
            /\ state'[s] = state[s]
            /\ outbox'[s] = outbox[s]
            /\ call'.user_id[s] = call.user_id[s]
            /\ call'.user_id[s] \in DOMAIN user_states'
            /\ user_states'[call.user_id[s]] = user_states[call.user_id[s]]
        /\ \A s \in Sessions : pc'[s] \in Live =>
            /\ call'.user_id[s] \in DOMAIN user_states'
            /\ user_states'[call'.user_id[s]] = state'[s]
        /\ \A s, t \in Sessions : s # t /\ pc'[s] \in Live /\ pc'[t] \in Live => call'.user_id[s] # call'.user_id[t]
      ]_vars

\* Session a finished a run while session b was in the middle of a turn, and
\* the two conversations are at different steps
C29_Witness ==
    /\ turn = [session |-> "a", kind |-> "run"]
    /\ pc["b"] = "running"
    /\ state["a"].step = "ASK_TITLE"
    /\ state["b"].step = "ASK_NAME"
    /\ state["a"].name = Some(Al)
    /\ state["b"].name = None

\* C30: within one session turns never overlap.  A message is accepted only
\* when the handler is back at receive_text, every earlier message of the
\* session has had its run finished and its reply sent, and the turn starts
\* from exactly the state the previous turn (or the greeting) produced.
C30_TurnsDoNotOverlap ==
    [][ \A s \in Sessions :
          /\ turn'.session = s /\ turn'.kind = "receive" =>
               /\ pc[s] = "receiving"
               /\ call.pending[s] = 0
               /\ state[s] = call.produced[s]
               /\ outbox[s] = Reply(call.produced[s])
               /\ state'[s] = [call.produced[s] EXCEPT !.last_user_message = Some(Head(call.inbox[s]))]
          /\ call'.pending[s] \in {0, 1}
          /\ call'.pending[s] = 1 <=> pc'[s] \in {"running", "sending"}
      ]_vars

\* The second message of session a is accepted: its turn starts at
\* ASK_DATETIME with the name the first turn stored, while session b is in
\* the middle of a turn
C30_Witness ==
    /\ turn = [session |-> "a", kind |-> "receive"]
    /\ pc["a"] = "running"
    /\ call.produced["a"].step = "ASK_DATETIME"
    /\ state["a"].name = Some(Al)
    /\ state["a"].step = "ASK_DATETIME"
    /\ outbox["a"] = Reply(call.produced["a"])
    /\ pc["b"] = "sending"

\* C31: create_event has exactly two outcomes, the event record or
\* GoogleCalendarError: a missing title or start raises it before any attempt,
\* a GoogleCalendarError of an attempt is raised at once, and any other
\* exception of an attempt is retried, at most `retries` (2) attempts being
\* made before GoogleCalendarError is raised.
C31_CreateEventOutcomes ==
    pc = "done" /\ call.fn = "create_event" =>
        /\ call.raised \in {"none", "GoogleCalendarError"}
        /\ call.raised = "none" <=> call.value = Some("event")
        /\ call.calls <= 2
        /\ ~Truthy(call.title) \/ call.meeting_datetime = None
              => call.raised = "GoogleCalendarError" /\ call.calls = 0
        /\ Truthy(call.title) /\ call.meeting_datetime # None =>
              /\ _create_event_blocking(call.api) = "TypeError"
                    => call.raised = "GoogleCalendarError" /\ call.calls = 2
              /\ _create_event_blocking(call.api) = "GoogleCalendarError"
                    => call.raised = "GoogleCalendarError" /\ call.calls = 1
              /\ _create_event_blocking(call.api) = "created"
                    => call.raised = "none" /\ call.calls = 1

C31_Witness ==
    /\ pc = "done"
    /\ call.fn = "create_event"
    /\ Truthy(call.title)
    /\ call.meeting_datetime # None
    /\ call.calls = 2
    /\ call.raised = "GoogleCalendarError"

\* The text of a synthesize call is None, empty or whitespace only
BlankText == call.text = None \/ \A i \in 1..Len(Val(call.text)) : Val(call.text)[i] \in Whitespace

\* The attempts of a synthesize call that succeed
SucceedingAttempts == {i \in 1..2 : call.attempts[i] = "ok"}

\* C32: synthesize returns the empty string for an empty or blank text without
\* running the engine; otherwise it runs the engine at most `retries` (2) times,
\* returns the audio of the first attempt that succeeds, and raises TTSError,
\* never another kind of error, when every attempt times out or fails.
C32_SynthesizeOutcomes ==
    pc = "done" /\ call.fn = "synthesize" =>
        /\ BlankText => call.raised = "none" /\ call.value = Some(<< >>) /\ call.calls = 0
        /\ ~BlankText =>
              /\ call.calls \in 1..2
              /\ call.raised \in {"none", "TTSError"}
              /\ SucceedingAttempts # {} =>
                    \E i \in SucceedingAttempts :
                        /\ \A j \in SucceedingAttempts : i <= j
                        /\ call.raised = "none"
                        /\ call.calls = i
                        /\ call.value = Some(b64encode(wav_bytes(i)))
              /\ SucceedingAttempts = {} => call.raised = "TTSError" /\ call.calls = 2 /\ call.value = None

C32_Witness ==
    /\ pc = "done"
    /\ call.fn = "synthesize"
    /\ ~BlankText
    /\ call.attempts = <<"timeout", "ok">>
    /\ call.calls = 2
    /\ call.value = Some(b64encode(wav_bytes(2)))

\* C33: transcribe either returns the transcribed text or raises STTError:
\* empty audio raises STTError before any transcription is attempted, and any
\* exception raised during transcription surfaces as STTError.
C33_TranscribeOutcomes ==
    pc = "done" /\ call.fn = "transcribe" =>
        /\ call.raised \in {"none", "STTError"}
        /\ ~Truthy(call.text) => call.raised = "STTError" /\ call.calls = 0
        /\ Truthy(call.text) =>
              /\ call.calls = 1
              /\ call.attempts[1] = "text" => call.raised = "none" /\ call.value = call.title
              /\ call.attempts[1] # "text" => call.raised = "STTError" /\ call.value = None

C33_Witness ==
    /\ pc = "done"
    /\ call.fn = "transcribe"
    /\ Truthy(call.text)
    /\ call.attempts = <<"RuntimeError">>
    /\ call.raised = "STTError"

\* C34 (as claimed): an auth message, a message of unknown type and an audio
\* message whose transcription fails are each answered by one status or error
\* message, after which the loop receives again, and they leave step, the three
\* slot fields, is_confirmed, confirmation_status and last_user_message unchanged.
C34_UnroutedMessagesAnswered ==
    [][ReceiveAuth \/ ReceiveInvalidType \/ ReceiveBadAudio =>
          /\ outbox' \in {StatusMessage, ErrorMessage}
          /\ pc' = "receiving"
          /\ state'.step = state.step
          /\ \A f \in SlotFields : state'[f] = state[f]
          /\ state'.is_confirmed = state.is_confirmed
          /\ state'.confirmation_status = state.confirmation_status
          /\ state'.last_user_message = state.last_user_message]_vars

\* The slots a conversation state must hold at its step
SlotsHeldAtStep(st) ==
    /\ st.step \in {"ASK_TITLE", "CONFIRM_DETAILS", "AWAIT_CONFIRMATION"} => st.meeting_datetime # None
    /\ st.step \in {"ASK_DATETIME", "ASK_TITLE", "CONFIRM_DETAILS", "AWAIT_CONFIRMATION"} => Truthy(st.name)

\* C35: in every reachable state of a session (the handler's and the
\* registry's) meeting_datetime is set when step is ASK_TITLE, CONFIRM_DETAILS
\* or AWAIT_CONFIRMATION and name is set when step is ASK_DATETIME, ASK_TITLE,
\* CONFIRM_DETAILS or AWAIT_CONFIRMATION; a turn that invoked create_event
\* ran on a state with name and meeting_datetime set.
C35_SlotsHeldAtStep ==
    /\ SlotsHeldAtStep(state)
    /\ \A id \in DOMAIN user_states : SlotsHeldAtStep(user_states[id])
    /\ turn.create_event_calls > 0 => Truthy(state.name) /\ state.meeting_datetime # None

C35_Witness ==
    /\ pc = "receiving"
    /\ turn.kind = "turn"
    /\ state.step = "AWAIT_CONFIRMATION"
    /\ Truthy(state.name)
    /\ state.meeting_datetime # None
    /\ state.meeting_title = None

\* C36 (as claimed): no slot field changes between the CONFIRM_DETAILS handler
\* composing its summary and the AWAIT_CONFIRMATION handler invoking event
\* creation: while the session waits at AWAIT_CONFIRMATION for the answer to
\* the summary, name, meeting_title and meeting_datetime keep the values the
\* summary presented (a skipped title is not filled in by the extraction that
\* runs inside AWAIT_CONFIRMATION).
C36_SummarySlotsFrozen ==
    [][state.step = "AWAIT_CONFIRMATION" /\ state'.step = "AWAIT_CONFIRMATION"
           => \A f \in SlotFields : state'[f] = state[f]]_vars

\* C37 (as claimed): the only action that clears a slot is the HANDLE_NEW_LOOP
\* handler on intent yes; a turn that restarts through START (step END, or any
\* step outside the in-flight ones) leaves name, meeting_title and
\* meeting_datetime at their previous values; and with meeting_datetime set
\* the ASK_DATETIME handler advances to ASK_TITLE whatever the utterance contains.
C37_StaleSlotsAdvance ==
    pc = "returned" =>
        /\ HeldSlotsKept \/ LoopReset
        /\ route_start(call.given) = "START" => \A f \in SlotFields : state[f] = call.given[f]
        /\ call.given.step = "ASK_DATETIME" /\ call.given.meeting_datetime # None
              => state.step = "ASK_TITLE"

\* is_confirmed is true in a conversation state only at HANDLE_NEW_LOOP or END
ConfirmedOnlyAtRest(st) == st.is_confirmed => st.step \in {"HANDLE_NEW_LOOP", "END"}

\* C39: in every reachable state of a session (the handler's and the
\* registry's), is_confirmed is false while step is ASK_NAME, ASK_DATETIME,
\* ASK_TITLE, CONFIRM_DETAILS or AWAIT_CONFIRMATION; is_confirmed is true only
\* in states whose step is HANDLE_NEW_LOOP or END.
C39_ConfirmedOnlyAtRest ==
    /\ state.step \in {"ASK_NAME", "ASK_DATETIME", "ASK_TITLE", "CONFIRM_DETAILS", "AWAIT_CONFIRMATION"}
          => ~state.is_confirmed
    /\ ConfirmedOnlyAtRest(state)
    /\ \A id \in DOMAIN user_states : ConfirmedOnlyAtRest(user_states[id])

\* A booking attempt that has been answered, without a yes or a no, at AWAIT_CONFIRMATION
C39_Witness ==
    /\ pc = "receiving"
    /\ turn.kind = "turn"
    /\ turn.ran = <<"AWAIT_CONFIRMATION">>
    /\ turn.fault = "none"
    /\ turn.intent \notin {Some(YES), Some(NO)}
    /\ state.step = "AWAIT_CONFIRMATION"
    /\ ~state.is_confirmed

\* The booking is made: the yes branch of AWAIT_CONFIRMATION completed
Booked == state.is_confirmed /\ state.step = "HANDLE_NEW_LOOP"

\* C40 (as claimed): a successful booking is reachable from a freshly created
\* session: with a cooperative provider and a calendar API that accepts the
\* insert, the turns of the session lead to is_confirmed = true and step =
\* HANDLE_NEW_LOOP.
C40_BookingCompletes == <>Booked

====
